---- MODULE Spec2Model ----
(***************************************************************************)
(* fixr-perps: the client-side calculation and transaction-construction    *)
(* layer (src/lib/gmx.ts), the trade and close handlers of the trading     *)
(* terminal (src/app/components/Demo.tsx), the SDK hook                    *)
(* (src/hooks/useGmxSdk.ts) and the position alerts                        *)
(* (src/lib/notifications.ts).                                             *)
(*                                                                         *)
(* Numbers.  A JavaScript number is modelled by the exact rational it      *)
(* denotes, a record [n, d] in lowest terms with d > 0 (binary rounding of *)
(* IEEE doubles is not modelled).  A decimal string is a record            *)
(* [int, frac, dot, exp]: the digits before and after the point, whether   *)
(* a point is present, and whether the string is in exponent notation      *)
(* ("4e-7").  A bigint is the sequence of its decimal digits, most         *)
(* significant first, without leading zeros (zero is <<0>>): the protocol  *)
(* values reach 10^30 and more, beyond machine integers.                   *)
(***************************************************************************)
EXTENDS Integers, Sequences, FiniteSets, TLC

VARIABLES
    call,             \* the library call in progress: its name, arguments, result
    address,          \* Demo: useAccount().address (NoAddress when disconnected)
    chainId,          \* Demo: useChainId()
    error,            \* Demo: the error banner state
    closingPosition,  \* Demo: key of the position being closed, or NoKey
    closeTimers,      \* Demo: pending setTimeout callbacks of handleClosePosition
    sent,             \* the last transaction handed to sendTransaction, or NoTx
    math,             \* the last evaluation of a pure trade-math function
    priceCache,       \* gmx.ts: the module-level cache of 24h statistics, or NoCache
    now,              \* Date.now(), in ms since the page was loaded
    pass,             \* the market-data pass in progress, or NoPass
    alertedPositions, \* notifications.ts: the module-level map of tracked positions
    alertLog,         \* the calls made to the alert tracking, with what they returned
    pendingTrade,     \* Demo: the trade shown in the confirmation modal, or NoTrade
    showConfirmModal, \* Demo: whether the confirmation modal is open
    needsApproval,    \* Demo: whether the modal announces an approval
    tradeStatus,      \* Demo: the modal's step
    tradeError,       \* Demo: the modal's error text, or NoTradeError
    trade,            \* Demo: the handleTrade call in progress, or NoClick
    sdkCall           \* useGmxSdk: the openLong/openShort call in progress, or NoSdkCall

vars == <<call, address, chainId, error, closingPosition, closeTimers, sent, math,
          priceCache, now, pass, alertedPositions, alertLog, pendingTrade,
          showConfirmModal, needsApproval, tradeStatus, tradeError, trade, sdkCall>>

dataVars == <<priceCache, now, pass>>
alertVars == <<alertedPositions, alertLog>>
tradeVars == <<pendingTrade, showConfirmModal, needsApproval, tradeStatus, tradeError, trade>>
appVars == <<alertVars, tradeVars, sdkCall>>

(***************************************************************************)
(* Exact arithmetic on JavaScript numbers                                  *)
(***************************************************************************)
Abs(i) == IF i < 0 THEN -i ELSE i

RECURSIVE Gcd(_, _)
Gcd(a, b) == IF b = 0 THEN a ELSE Gcd(b, a % b)

\* The number n/d, in lowest terms with a positive denominator.
Num(n, d) ==
    LET s == IF d < 0 THEN -1 ELSE 1
        g == Gcd(Abs(n), Abs(d))
    IN  [n |-> (s * n) \div g, d |-> (s * d) \div g]

NumAdd(x, y) ==
    LET g == Gcd(x.d, y.d)
    IN  Num(x.n * (y.d \div g) + y.n * (x.d \div g), (x.d \div g) * y.d)
NumNeg(x) == [n |-> -x.n, d |-> x.d]
NumSub(x, y) == NumAdd(x, NumNeg(y))
\* The factors are reduced crosswise before they are multiplied.
NumMul(x, y) ==
    LET g1 == Gcd(Abs(x.n), y.d)
        g2 == Gcd(Abs(y.n), x.d)
    IN  Num((x.n \div g1) * (y.n \div g2), (x.d \div g2) * (y.d \div g1))
NumDiv(x, y) == NumMul(x, Num(y.d, y.n))
NumLt(x, y) == x.n * y.d < y.n * x.d
NumLe(x, y) == x.n * y.d <= y.n * x.d
NumNat(k) == [n |-> k, d |-> 1]

(***************************************************************************)
(* Digit sequences, decimal strings, bigints                               *)
(***************************************************************************)
RECURSIVE NatDigits(_)
NatDigits(k) == IF k < 10 THEN <<k>> ELSE NatDigits(k \div 10) \o <<k % 10>>

RECURSIVE DigitsNat(_)
DigitsNat(s) ==
    IF s = <<>> THEN 0
    ELSE 10 * DigitsNat(SubSeq(s, 1, Len(s) - 1)) + s[Len(s)]

Zeros(k) == [i \in 1..k |-> 0]

RECURSIVE TrimTrailingZeros(_)
TrimTrailingZeros(s) ==
    IF s # <<>> /\ s[Len(s)] = 0
    THEN TrimTrailingZeros(SubSeq(s, 1, Len(s) - 1))
    ELSE s

\* BigInt(digits): the value of a digit string; leading zeros do not count.
RECURSIVE BigInt(_)
BigInt(s) ==
    IF s = <<>> THEN <<0>>
    ELSE IF Len(s) > 1 /\ s[1] = 0 THEN BigInt(Tail(s))
    ELSE s

PadStart(s, k) == Zeros(IF Len(s) < k THEN k - Len(s) ELSE 0) \o s

DecStr(i, f) == [int |-> i, frac |-> f, dot |-> f # <<>>, exp |-> FALSE]
ExpStr == [int |-> <<>>, frac |-> <<>>, dot |-> FALSE, exp |-> TRUE]

\* The digits of rem/d after the decimal point, at most k of them.
RECURSIVE FracDigits(_, _, _)
FracDigits(rem, d, k) ==
    IF rem = 0 \/ k = 0 THEN <<>>
    ELSE <<(rem * 10) \div d>> \o FracDigits((rem * 10) % d, d, k - 1)

MaxFractionDigits == 20

\* Number.prototype.toString of a number x >= 0: the shortest decimal that
\* denotes x; a nonzero x below 10^-6 is written in exponent notation.
NumberToString(x) ==
    IF x.n # 0 /\ x.n <= (x.d - 1) \div 1000000 THEN ExpStr
    ELSE DecStr(NatDigits(x.n \div x.d), FracDigits(x.n % x.d, x.d, MaxFractionDigits))

\* Number.prototype.toFixed(2) of a number x >= 0: x to the nearest hundredth,
\* a tie going up, always written with two fraction digits.
ToFixed2(x) ==
    LET q == x.n \div x.d
        r == x.n % x.d
        cents == q * 100 + (200 * r + x.d) \div (2 * x.d)
    IN  DecStr(NatDigits(cents \div 100), <<(cents \div 10) % 10, cents % 10>>)

(***************************************************************************)
(* viem's parseUnits, as the builders call it                              *)
(***************************************************************************)
Thrown == [ok |-> FALSE]
Returned(v) == [ok |-> TRUE, v |-> v]

\* parseUnits(value, decimals): throws on a string that is not a plain
\* decimal; otherwise moves the point `decimals` places to the right,
\* rounding half up the fraction digits beyond them.
parseUnits(value, decimals) ==
    IF value.exp THEN Thrown
    ELSE
    LET integer0 == value.int
        fraction0 == TrimTrailingZeros(IF value.dot THEN value.frac ELSE <<0>>)
        left == SubSeq(fraction0, 1, decimals - 1)
        unit == fraction0[decimals]
        right == SubSeq(fraction0, decimals + 1, Len(fraction0))
        rounded == unit + (IF right[1] >= 5 THEN 1 ELSE 0)
        fraction1 ==
            IF rounded > 9
            THEN PadStart(NatDigits(DigitsNat(left) + 1) \o <<0>>, Len(left) + 1)
            ELSE left \o <<rounded>>
        carry == Len(fraction1) > decimals
        bump(i) == NatDigits(DigitsNat(i) + 1)
    IN  IF decimals = 0
        THEN Returned(BigInt(IF fraction0 # <<>> /\ fraction0[1] >= 5
                             THEN bump(integer0) ELSE integer0))
        ELSE IF Len(fraction0) > decimals
        THEN Returned(BigInt(
                 (IF carry THEN bump(integer0) ELSE integer0)
                 \o SubSeq(IF carry THEN Tail(fraction1) ELSE fraction1, 1, decimals)))
        ELSE Returned(BigInt(integer0 \o fraction0 \o Zeros(decimals - Len(fraction0))))

(***************************************************************************)
(* Static configuration                                                    *)
(***************************************************************************)
ZeroAddress == "0x0000000000000000000000000000000000000000"

GMX_CONTRACTS ==
    [DataStore |-> "0xFD70de6b91282D8017aA4E741e9Ae325CAb992d8",
     Reader |-> "0x38d91ED96283d62182Fc6d990C24097A918a4d9b",
     ExchangeRouter |-> "0x602b805EedddBbD9ddff44A7dcBD46cb07849685",
     Router |-> "0x7452c558d45f8afC8c83dAe62C3f8A5BE19c71f6",
     OrderVault |-> "0x31eF83a530Fde1B38EE9A18093A333D8Bbbc40D5"]

TOKENS ==
    [WETH |-> "0x82aF49447D8a07e3bd95BD0d56f35241523fBab1",
     USDC |-> "0xaf88d065e77c8cC2239327C5EDb3A432268e5831",
     ARB |-> "0x912CE59144191C1204E64559FE8253a0e49E6548",
     WBTC |-> "0x2f2a2543B76A4166549F7aaB2e75Bef0aefC5B0f",
     LINK |-> "0xf97f4df75117a78c1A5a0DBb814Af92458539FB4"]

MarketKey == {"ETH-USD", "BTC-USD", "ARB-USD", "LINK-USD"}

GMX_MARKETS(market) ==
    CASE market = "ETH-USD" ->
           [marketToken |-> "0x70d95587d40A2caf56bd97485aB3Eec10Bee6336",
            indexToken |-> TOKENS.WETH, longToken |-> TOKENS.WETH,
            shortToken |-> TOKENS.USDC, symbol |-> "ETH", coingeckoId |-> "ethereum"]
      [] market = "BTC-USD" ->
           [marketToken |-> "0x47c031236e19d024b42f8AE6780E44A573170703",
            indexToken |-> TOKENS.WBTC, longToken |-> TOKENS.WBTC,
            shortToken |-> TOKENS.USDC, symbol |-> "BTC", coingeckoId |-> "bitcoin"]
      [] market = "ARB-USD" ->
           [marketToken |-> "0xC25cEf6061Cf5dE5eb761b50E4743c1F5D7E5407",
            indexToken |-> TOKENS.ARB, longToken |-> TOKENS.ARB,
            shortToken |-> TOKENS.USDC, symbol |-> "ARB", coingeckoId |-> "arbitrum"]
      [] market = "LINK-USD" ->
           [marketToken |-> "0x7f1fa204bb700853D36994DA19F830b6Ad18455C",
            indexToken |-> TOKENS.LINK, longToken |-> TOKENS.LINK,
            shortToken |-> TOKENS.USDC, symbol |-> "LINK", coingeckoId |-> "chainlink"]

ORDER_TYPE ==
    [MarketSwap |-> 0, LimitSwap |-> 1, MarketIncrease |-> 2, LimitIncrease |-> 3,
     MarketDecrease |-> 4, LimitDecrease |-> 5, StopLossDecrease |-> 6, Liquidation |-> 7]

DECREASE_POSITION_SWAP_TYPE ==
    [NoSwap |-> 0, SwapPnlTokenToCollateralToken |-> 1, SwapCollateralTokenToPnlToken |-> 2]

\* Faulty variant, for the sensitivity of the properties: the display estimate's 0.0001 in place of the fixed fee.
EXECUTION_FEE_estimate == parseUnits(DecStr(<<0>>, <<0, 0, 0, 1>>), 18).v

\* parseUnits('0.0003', 18)
EXECUTION_FEE == parseUnits(DecStr(<<0>>, <<0, 0, 0, 3>>), 18).v

FIXR_REFERRAL_CODE == "0x0000000000000000000000000000000000000000000000000000000000000000"

INDEX_TOKEN_DECIMALS(market) == IF market = "BTC-USD" THEN 8 ELSE 18

(***************************************************************************)
(* Order payload builder                                                   *)
(***************************************************************************)
\* encodeFunctionData: the encoded call, kept as the pair it encodes.
encodeFunctionData(functionName, args) == [functionName |-> functionName, args |-> args]

\* Faulty variant, for the sensitivity of the properties: the price is not rounded to 2 decimals before the conversion.
convertToContractPrice_unrounded(price, tokenDecimals) ==
    parseUnits(NumberToString(price), 30 - tokenDecimals)

convertToContractPrice(price, tokenDecimals) ==
    LET precision == 30 - tokenDecimals
        priceStr == ToFixed2(price)
    IN  parseUnits(priceStr, precision)

\* parseUnits(x.toString(), 6): an amount in USDC's 6 decimals.
usdcUnits(x) == parseUnits(NumberToString(x), 6)

\* Faulty variant, for the sensitivity of the properties: a USD amount written with USDC's precision.
usdUnits_usdc(x) == parseUnits(NumberToString(x), 6)

\* parseUnits(x.toString(), 30): an amount in the protocol's 30-decimal USD.
usdUnits(x) == parseUnits(NumberToString(x), 30)

\* The order record both builders fill in; they differ in the collateral
\* delta and in the order type only.
orderParams(params, sizeDeltaUsd, initialCollateralDeltaAmount, acceptablePrice, orderType) ==
    [addresses |->
        [receiver |-> params.account,
         cancellationReceiver |-> ZeroAddress,
         callbackContract |-> ZeroAddress,
         uiFeeReceiver |-> ZeroAddress,
         market |-> GMX_MARKETS(params.market).marketToken,
         initialCollateralToken |-> TOKENS.USDC,
         swapPath |-> <<>>],
     numbers |->
        [sizeDeltaUsd |-> sizeDeltaUsd,
         initialCollateralDeltaAmount |-> initialCollateralDeltaAmount,
         triggerPrice |-> <<0>>,
         acceptablePrice |-> acceptablePrice,
         executionFee |-> EXECUTION_FEE,
         callbackGasLimit |-> <<0>>,
         minOutputAmount |-> <<0>>,
         validFromTime |-> <<0>>],
     orderType |-> orderType,
     decreasePositionSwapType |-> DECREASE_POSITION_SWAP_TYPE.NoSwap,
     isLong |-> params.isLong,
     shouldUnwrapNativeToken |-> FALSE,
     autoCancel |-> FALSE,
     referralCode |-> FIXR_REFERRAL_CODE,
     dataList |-> <<>>]

\* Faulty variant, for the sensitivity of the properties: the collateral is also written into the order record.
createOrderParams_collateral(params, sizeDeltaUsdBigInt, collateralAmountBigInt, acceptablePriceBigInt) ==
    orderParams(params, sizeDeltaUsdBigInt, collateralAmountBigInt, acceptablePriceBigInt,
                ORDER_TYPE.MarketIncrease)

createOrderParams(params, sizeDeltaUsdBigInt, collateralAmountBigInt, acceptablePriceBigInt) ==
    orderParams(params, sizeDeltaUsdBigInt, <<0>>, acceptablePriceBigInt,
                ORDER_TYPE.MarketIncrease)

\* Faulty variant, for the sensitivity of the properties: the close order keeps the open order's type.
closeOrderParams_increase(params, sizeDeltaUsdBigInt, collateralDeltaAmountBigInt, acceptablePriceBigInt) ==
    orderParams(params, sizeDeltaUsdBigInt, collateralDeltaAmountBigInt, acceptablePriceBigInt,
                ORDER_TYPE.MarketIncrease)

closeOrderParams(params, sizeDeltaUsdBigInt, collateralDeltaAmountBigInt, acceptablePriceBigInt) ==
    orderParams(params, sizeDeltaUsdBigInt, collateralDeltaAmountBigInt, acceptablePriceBigInt,
                ORDER_TYPE.MarketDecrease)

\* Faulty variant, for the sensitivity of the properties: the token transfer is left out of the batch.
createMulticall_noTokens(sendWntData, sendTokensData, createOrderData) ==
    <<sendWntData, createOrderData>>

\* The sub-call lists handed to multicall.
createMulticall(sendWntData, sendTokensData, createOrderData) ==
    <<sendWntData, sendTokensData, createOrderData>>

closeMulticall(sendWntData, createOrderData) == <<sendWntData, createOrderData>>

buildCreateOrderCalldata(params) ==
    LET tokenDecimals == INDEX_TOKEN_DECIMALS(params.market)
        collateralAmountBigInt == usdcUnits(params.collateralAmount)
        sizeDeltaUsdBigInt == usdUnits(params.sizeDeltaUsd)
        acceptablePriceBigInt == convertToContractPrice(params.acceptablePrice, tokenDecimals)
        sendWntData == encodeFunctionData("sendWnt", <<GMX_CONTRACTS.OrderVault, EXECUTION_FEE>>)
        sendTokensData ==
            encodeFunctionData("sendTokens",
                <<TOKENS.USDC, GMX_CONTRACTS.OrderVault, collateralAmountBigInt.v>>)
        createOrderData ==
            encodeFunctionData("createOrder",
                <<createOrderParams(params, sizeDeltaUsdBigInt.v, collateralAmountBigInt.v,
                                    acceptablePriceBigInt.v)>>)
        multicallData ==
            encodeFunctionData("multicall",
                <<createMulticall(sendWntData, sendTokensData, createOrderData)>>)
    IN  IF ~collateralAmountBigInt.ok \/ ~sizeDeltaUsdBigInt.ok \/ ~acceptablePriceBigInt.ok
        THEN Thrown
        ELSE Returned([calldata |-> multicallData, value |-> EXECUTION_FEE])

buildClosePositionCalldata(params) ==
    LET tokenDecimals == INDEX_TOKEN_DECIMALS(params.market)
        sizeDeltaUsdBigInt == usdUnits(params.sizeDeltaUsd)
        collateralDeltaAmountBigInt == usdcUnits(params.collateralDeltaUsd)
        acceptablePriceBigInt == convertToContractPrice(params.acceptablePrice, tokenDecimals)
        sendWntData == encodeFunctionData("sendWnt", <<GMX_CONTRACTS.OrderVault, EXECUTION_FEE>>)
        createOrderData ==
            encodeFunctionData("createOrder",
                <<closeOrderParams(params, sizeDeltaUsdBigInt.v, collateralDeltaAmountBigInt.v,
                                   acceptablePriceBigInt.v)>>)
        multicallData ==
            encodeFunctionData("multicall", <<closeMulticall(sendWntData, createOrderData)>>)
    IN  IF ~sizeDeltaUsdBigInt.ok \/ ~collateralDeltaAmountBigInt.ok \/ ~acceptablePriceBigInt.ok
        THEN Thrown
        ELSE Returned([calldata |-> multicallData, value |-> EXECUTION_FEE])

(***************************************************************************)
(* Acceptable price with slippage                                          *)
(***************************************************************************)
calculateAcceptablePrice(price, isLong, slippagePercent) ==
    LET slippageMultiplier == NumDiv(slippagePercent, NumNat(100))
    IN  IF isLong
        THEN NumMul(price, NumAdd(NumNat(1), slippageMultiplier))
        ELSE NumMul(price, NumSub(NumNat(1), slippageMultiplier))

\* Faulty variant, for the sensitivity of the properties: the close price is biased like the open price.
calculateAcceptablePriceForClose_asOpen(price, isLong, slippagePercent) ==
    LET slippageMultiplier == NumDiv(slippagePercent, NumNat(100))
    IN  IF isLong
        THEN NumMul(price, NumAdd(NumNat(1), slippageMultiplier))
        ELSE NumMul(price, NumSub(NumNat(1), slippageMultiplier))

calculateAcceptablePriceForClose(price, isLong, slippagePercent) ==
    LET slippageMultiplier == NumDiv(slippagePercent, NumNat(100))
    IN  IF isLong
        THEN NumMul(price, NumSub(NumNat(1), slippageMultiplier))
        ELSE NumMul(price, NumAdd(NumNat(1), slippageMultiplier))

(***************************************************************************)
(* Liquidation price                                                       *)
(***************************************************************************)
\* The default of the maintenanceMargin parameter: 0.01.
DefaultMaintenanceMargin == Num(1, 100)

\* Faulty variant, for the sensitivity of the properties: the two directions are exchanged.
calculateLiquidationPrice_swapped(isLong, entryPrice, leverage, maintenanceMargin) ==
    LET liquidationThreshold == NumSub(NumDiv(NumNat(1), leverage), maintenanceMargin)
    IN  IF isLong
        THEN NumMul(entryPrice, NumAdd(NumNat(1), liquidationThreshold))
        ELSE NumMul(entryPrice, NumSub(NumNat(1), liquidationThreshold))

\* Faulty variant, for the sensitivity of the properties: a threshold below zero is clamped to zero.
calculateLiquidationPrice_clamped(isLong, entryPrice, leverage, maintenanceMargin) ==
    LET t == NumSub(NumDiv(NumNat(1), leverage), maintenanceMargin)
        liquidationThreshold == IF t.n < 0 THEN NumNat(0) ELSE t
    IN  IF isLong
        THEN NumMul(entryPrice, NumSub(NumNat(1), liquidationThreshold))
        ELSE NumMul(entryPrice, NumAdd(NumNat(1), liquidationThreshold))

calculateLiquidationPrice(isLong, entryPrice, leverage, maintenanceMargin) ==
    LET liquidationThreshold == NumSub(NumDiv(NumNat(1), leverage), maintenanceMargin)
    IN  IF isLong
        THEN NumMul(entryPrice, NumSub(NumNat(1), liquidationThreshold))
        ELSE NumMul(entryPrice, NumAdd(NumNat(1), liquidationThreshold))

\* calculatePnL (entryPrice # 0): the price move in the position's favour,
\* relative to the entry price, times the size; pnlPercent is that relative
\* move times 100.
\* Faulty variant, for the sensitivity of the properties: a short is valued like a long.
calculatePnL_longOnly(isLong, entryPrice, currentPrice, size) ==
    LET priceDiff == NumSub(currentPrice, entryPrice)
    IN  [pnl |-> NumMul(NumDiv(priceDiff, entryPrice), size),
         pnlPercent |-> NumMul(NumDiv(priceDiff, entryPrice), NumNat(100))]

calculatePnL(isLong, entryPrice, currentPrice, size) ==
    LET priceDiff == IF isLong THEN NumSub(currentPrice, entryPrice)
                     ELSE NumSub(entryPrice, currentPrice)
        pnl == NumMul(NumDiv(priceDiff, entryPrice), size)
        pnlPercent == NumMul(NumDiv(priceDiff, entryPrice), NumNat(100))
    IN  [pnl |-> pnl, pnlPercent |-> pnlPercent]

\* calculateTradePreview (params.leverage # 0).
\* Faulty variant, for the sensitivity of the properties: the position fee is left out.
calculateTradePreview_noPositionFee(params, currentPrice) ==
    LET size == NumMul(params.collateral, params.leverage)
    IN  [size |-> size,
         entryPrice |-> currentPrice,
         liquidationPrice |->
             calculateLiquidationPrice(params.isLong, currentPrice, params.leverage,
                                       DefaultMaintenanceMargin),
         fees |-> NumMul(Num(1, 10000), currentPrice),
         margin |-> params.collateral,
         leverage |-> params.leverage]

\* Faulty variant, for the sensitivity of the properties: the liquidation price is computed with half the maintenance margin.
calculateTradePreview_halfMargin(params, currentPrice) ==
    LET size == NumMul(params.collateral, params.leverage)
    IN  [size |-> size,
         entryPrice |-> currentPrice,
         liquidationPrice |->
             calculateLiquidationPrice(params.isLong, currentPrice, params.leverage,
                                       Num(1, 200)),
         fees |-> NumAdd(NumMul(size, Num(5, 10000)), NumMul(Num(1, 10000), currentPrice)),
         margin |-> params.collateral,
         leverage |-> params.leverage]

calculateTradePreview(params, currentPrice) ==
    LET size == NumMul(params.collateral, params.leverage)
        positionFee == NumMul(size, Num(5, 10000))
        executionFee == NumMul(Num(1, 10000), currentPrice)
        fees == NumAdd(positionFee, executionFee)
        liquidationPrice ==
            calculateLiquidationPrice(params.isLong, currentPrice, params.leverage,
                                      DefaultMaintenanceMargin)
    IN  [size |-> size,
         entryPrice |-> currentPrice,
         liquidationPrice |-> liquidationPrice,
         fees |-> fees,
         margin |-> params.collateral,
         leverage |-> params.leverage]

(***************************************************************************)
(* Display strings                                                         *)
(***************************************************************************)
\* formatNumber(value): toLocaleString('en-US') with exactly two fraction
\* digits, the magnitude rounded to the nearest hundredth (a tie away from
\* zero), a negative value keeping its sign even when it rounds to 0.00 (the
\* grouping commas are not kept: every reader removes them first).
Signed(sign, str) == [sign |-> sign, str |-> str]
formatNumber(value) ==
    IF value.n < 0 THEN Signed("-", ToFixed2(NumNeg(value))) ELSE ToFixed2(value)

\* parseFloat(s.replace(/,/g, '')) of a plain decimal string.
parseFloat(str) ==
    Num(DigitsNat(str.int \o str.frac), DigitsNat(<<1>> \o Zeros(Len(str.frac))))

(***************************************************************************)
(* Inputs                                                                  *)
(***************************************************************************)
MaxWholeAmount == 2

\* USD amounts a caller may pass: whole amounts, amounts with up to six
\* fraction digits, with seven (beyond USDC's precision), and one below 10^-6.
AmountInputs ==
    {NumNat(k) : k \in 0..MaxWholeAmount}
    \cup {Num(4, 10000000), Num(1, 1000000), Num(15, 10000000), Num(10000004, 10000000),
          Num(10000005, 10000000), Num(19999995, 10000000), Num(3, 2),
          Num(123456, 100), NumNat(3000)}

SizeInputs ==
    {NumNat(0), Num(4, 10000000), Num(15, 10000000), Num(3, 2), Num(123456, 100),
     NumNat(3000)}

\* Acceptable prices: zero, prices that round to 0.00 and to 0.01, prices with
\* more than two fraction digits, and the spec's table values.
PriceInputs ==
    {NumNat(0), Num(4, 1000), Num(5, 1000), Num(303, 10), NumNat(2970), NumNat(3030),
     Num(2999995, 1000), Num(6500012, 100)}

Accounts == {"0xAcc1", "0xAcc2"}

CreateOrderParams ==
    [market : MarketKey, isLong : BOOLEAN, collateralAmount : AmountInputs,
     sizeDeltaUsd : SizeInputs, acceptablePrice : PriceInputs, account : Accounts]

ClosePositionParams ==
    [market : MarketKey, isLong : BOOLEAN, sizeDeltaUsd : SizeInputs,
     collateralDeltaUsd : AmountInputs, acceptablePrice : PriceInputs, account : Accounts]

(***************************************************************************)
(* State                                                                   *)
(***************************************************************************)
Idle == [op |-> "idle"]
NoAddress == "null"
NoKey == "null"
NoError == "null"
NoTx == [to |-> "none"]
NoMath == [fn |-> "none"]
NoCache == [data |-> "null"]
NoPass == [op |-> "none"]
ARBITRUM == 42161
\* Arbitrum One and one other chain (Ethereum mainnet).
ChainIds == {ARBITRUM, 1}

\* new Map(): no position is tracked.
NoneTracked == <<>>
\* pendingTrade: null.
NoTrade == [marketKey |-> "none"]
NoTradeError == "undefined"
NoClick == [stage |-> "none"]
NoSdkCall == [op |-> "none"]

Init ==
    /\ call = Idle
    /\ address = NoAddress
    /\ chainId \in ChainIds
    /\ error = NoError
    /\ closingPosition = NoKey
    /\ closeTimers = 0
    /\ sent = NoTx
    /\ math = NoMath
    /\ priceCache = NoCache
    /\ now = 0
    /\ pass = NoPass
    /\ alertedPositions = NoneTracked
    /\ alertLog = <<>>
    /\ pendingTrade = NoTrade
    /\ showConfirmModal = FALSE
    /\ needsApproval = FALSE
    /\ tradeStatus = "confirm"
    /\ tradeError = NoTradeError
    /\ trade = NoClick
    /\ sdkCall = NoSdkCall

demoVars == <<address, chainId, error, closingPosition, closeTimers, sent>>

(***************************************************************************)
(* The builders as operations: a caller passes params and gets the result  *)
(***************************************************************************)
BuildCreateOrder ==
    /\ call = Idle
    /\ \E params \in CreateOrderParams :
          call' = [op |-> "buildCreateOrderCalldata", params |-> params,
                   result |-> buildCreateOrderCalldata(params)]
    /\ UNCHANGED <<demoVars, math, dataVars, appVars>>

BuildClosePosition ==
    /\ call = Idle
    /\ \E params \in ClosePositionParams :
          call' = [op |-> "buildClosePositionCalldata", params |-> params,
                   result |-> buildClosePositionCalldata(params)]
    /\ UNCHANGED <<demoVars, math, dataVars, appVars>>

\* The caller takes the result (or the exception); the builder keeps no state.
BuilderReturn ==
    /\ call # Idle
    /\ call' = Idle
    /\ UNCHANGED <<demoVars, math, dataVars, appVars>>

Next == BuildCreateOrder \/ BuildClosePosition \/ BuilderReturn

Spec == Init /\ [][Next]_vars

(***************************************************************************)
(* Demo: closing a position                                                *)
(***************************************************************************)
MaxCloseTimers == 1

\* The positions the terminal may list: what getPositions formats.
MarkPriceInputs == {NumNat(0), Num(1, 100), NumNat(3000)}
PositionInputs ==
    [market : MarketKey, isLong : BOOLEAN,
     size : {formatNumber(NumNat(3000))},
     collateral : {formatNumber(NumNat(0)), formatNumber(Num(30050, 100))},
     markPrice : {formatNumber(m) : m \in MarkPriceInputs}]

\* The wallet connects or disconnects (wagmi's useAccount).
WalletConnect ==
    /\ \E a \in {NoAddress, "0xAcc1"} : address' = a
    /\ address' # address
    /\ UNCHANGED <<call, chainId, error, closingPosition, closeTimers, sent, math, dataVars, appVars>>

\* The wallet changes chain, on the user's or on switchChain's request.
WalletSwitchChain ==
    /\ \E c \in ChainIds : chainId' = c
    /\ chainId' # chainId
    /\ UNCHANGED <<call, address, error, closingPosition, closeTimers, sent, math, dataVars, appVars>>

handleClosePosition(position) ==
    IF address = NoAddress
    THEN /\ error' = "Wallet not connected"
         /\ UNCHANGED <<closingPosition, closeTimers, sent>>
    ELSE IF chainId # ARBITRUM
    THEN /\ error' = "Please switch to Arbitrum network"
         /\ UNCHANGED <<closingPosition, closeTimers, sent>>
    ELSE
    LET sizeNum == parseFloat(position.size)
        collateralNum == parseFloat(position.collateral)
        markPriceNum == parseFloat(position.markPrice)
        positionKey == <<position.market, IF position.isLong THEN "long" ELSE "short">>
        acceptablePrice ==
            calculateAcceptablePriceForClose(markPriceNum, position.isLong, NumNat(1))
        built ==
            buildClosePositionCalldata(
                [market |-> position.market, isLong |-> position.isLong,
                 sizeDeltaUsd |-> sizeNum, collateralDeltaUsd |-> collateralNum,
                 acceptablePrice |-> acceptablePrice, account |-> address])
    IN  IF built.ok
        THEN /\ sent' = [to |-> GMX_CONTRACTS.ExchangeRouter,
                         data |-> built.v.calldata, value |-> built.v.value]
             /\ closingPosition' = positionKey
             /\ error' = NoError
             /\ closeTimers' = closeTimers + 1
        ELSE /\ error' = "Failed to close position"
             /\ closingPosition' = NoKey
             /\ UNCHANGED <<closeTimers, sent>>

HandleClosePosition ==
    /\ closeTimers < MaxCloseTimers
    /\ \E position \in PositionInputs : handleClosePosition(position)
    /\ UNCHANGED <<call, address, chainId, math, dataVars, appVars>>

\* The 5 s timer of a submitted close: the closing mark is cleared.
CloseTimerFires ==
    /\ closeTimers > 0
    /\ closeTimers' = closeTimers - 1
    /\ closingPosition' = NoKey
    /\ UNCHANGED <<call, address, chainId, error, sent, math, dataVars, appVars>>

NextClose == WalletConnect \/ WalletSwitchChain \/ HandleClosePosition \/ CloseTimerFires

SpecClose == Init /\ [][NextClose]_vars

\* viem's formatUnits of a non-negative bigint: the decimal point is placed
\* `decimals` digits from the right and trailing fraction zeros are removed.
formatUnits(value, decimals) ==
    LET display == PadStart(value, decimals)
        integer == SubSeq(display, 1, Len(display) - decimals)
        fraction == TrimTrailingZeros(SubSeq(display, Len(display) - decimals + 1,
                                             Len(display)))
    IN  DecStr(IF integer = <<>> THEN <<0>> ELSE integer, fraction)

\* Number(s) of a plain decimal string.
Number(str) == parseFloat(str)

\* Math.round(x): the nearest integer, a tie going up.
MathRound(x) == NumNat((2 * x.n + x.d) \div (2 * x.d))

\* Faulty variant, for the sensitivity of the properties: the amount is written with toFixed(2), as prices are.
toFixedPoint_fixed2(amount, decimals) == parseUnits(ToFixed2(amount), decimals)

\* parseUnits(amount.toString(), decimals): an amount as a fixed-point
\* integer of the given precision.
toFixedPoint(amount, decimals) == parseUnits(NumberToString(amount), decimals)

\* Number(formatUnits(value, decimals)): a fixed-point integer as a number.
fromFixedPoint(value, decimals) == Number(formatUnits(value, decimals))

\* The precisions in use: USDC, the feeds and BTC, prices of 18-decimal
\* tokens, ETH and the other index tokens, prices of BTC, and USD.
Precisions == {6, 8, 12, 18, 22, 30}

(***************************************************************************)
(* The pure trade-math functions as operations                             *)
(***************************************************************************)
MaxWholeLeverage == 3

MathPriceInputs == {Num(1, 100), Num(61, 2), NumNat(3000), NumNat(65000)}

\* Slippage percentages: none, the default 0.5, the close handler's 1, and
\* values at and above 100.
SlippageInputs == {NumNat(0), Num(1, 2), NumNat(1), NumNat(3), NumNat(100), NumNat(150)}

\* Leverages: below, at and just above 1, the slider's values, and the values
\* around 1/maintenanceMargin.
LeverageInputs ==
    {NumNat(k) : k \in 1..MaxWholeLeverage}
    \cup {Num(1, 2), Num(101, 100), Num(3, 2), NumNat(10), NumNat(20), NumNat(50),
          NumNat(99), Num(199, 2), NumNat(100), NumNat(101), NumNat(150)}

MarginInputs == {DefaultMaintenanceMargin, Num(1, 20), Num(1, 2)}

CalculateAcceptablePrice ==
    /\ math = NoMath
    /\ \E price \in MathPriceInputs, isLong \in BOOLEAN, slippagePercent \in SlippageInputs :
          math' = [fn |-> "calculateAcceptablePrice", price |-> price, isLong |-> isLong,
                   slippagePercent |-> slippagePercent,
                   result |-> calculateAcceptablePrice(price, isLong, slippagePercent)]
    /\ UNCHANGED <<call, demoVars, dataVars, appVars>>

CalculateAcceptablePriceForClose ==
    /\ math = NoMath
    /\ \E price \in MathPriceInputs, isLong \in BOOLEAN, slippagePercent \in SlippageInputs :
          math' = [fn |-> "calculateAcceptablePriceForClose", price |-> price,
                   isLong |-> isLong, slippagePercent |-> slippagePercent,
                   result |-> calculateAcceptablePriceForClose(price, isLong, slippagePercent)]
    /\ UNCHANGED <<call, demoVars, dataVars, appVars>>

CalculateLiquidationPrice ==
    /\ math = NoMath
    /\ \E isLong \in BOOLEAN, entryPrice \in MathPriceInputs, leverage \in LeverageInputs,
          maintenanceMargin \in MarginInputs :
          math' = [fn |-> "calculateLiquidationPrice", isLong |-> isLong,
                   entryPrice |-> entryPrice, leverage |-> leverage,
                   maintenanceMargin |-> maintenanceMargin,
                   result |-> calculateLiquidationPrice(isLong, entryPrice, leverage,
                                                        maintenanceMargin)]
    /\ UNCHANGED <<call, demoVars, dataVars, appVars>>

PnLPriceInputs == {Num(305, 10), NumNat(2970), NumNat(3000), NumNat(3030)}
PnLSizeInputs == {NumNat(1), NumNat(3000), Num(123456, 100)}

CalculatePnL ==
    /\ math = NoMath /\ call = Idle
    /\ \E isLong \in BOOLEAN, entryPrice \in PnLPriceInputs,
          currentPrice \in PnLPriceInputs \cup {NumNat(0)}, size \in PnLSizeInputs :
           math' = [fn |-> "calculatePnL", isLong |-> isLong, entryPrice |-> entryPrice,
                    currentPrice |-> currentPrice, size |-> size,
                    result |-> calculatePnL(isLong, entryPrice, currentPrice, size)]
    /\ UNCHANGED <<call, demoVars, dataVars, appVars>>

PreviewCollateralInputs == {NumNat(0), NumNat(10), NumNat(100), Num(2505, 100)}
\* The slider's leverages (1 to the largest maxLeverage, in steps of 1) and a
\* fractional one.
PreviewLeverageInputs == {NumNat(k) : k \in 1..100} \cup {Num(25, 10)}
PreviewPriceInputs == {NumNat(0), Num(5, 10), NumNat(3000), NumNat(65000)}
TradeParams ==
    [market : MarketKey, isLong : BOOLEAN, collateral : PreviewCollateralInputs,
     leverage : PreviewLeverageInputs]

CalculateTradePreview ==
    /\ math = NoMath
    /\ \E params \in TradeParams, currentPrice \in PreviewPriceInputs :
           math' = [fn |-> "calculateTradePreview", params |-> params,
                    currentPrice |-> currentPrice,
                    result |-> calculateTradePreview(params, currentPrice)]
    /\ UNCHANGED <<call, demoVars, dataVars, appVars>>

\* Amounts to convert: those the builders are given, one with eight fraction
\* digits, and 10^-8.
ConvertInputs == AmountInputs \cup {Num(12345678, 100000000), Num(1, 100000000)}

\* An amount is converted to fixed-point and the integer converted back.
ConvertAmount ==
    /\ math = NoMath
    /\ \E amount \in ConvertInputs, decimals \in Precisions :
           LET units == toFixedPoint(amount, decimals)
           IN  math' = [fn |-> "convert", amount |-> amount, decimals |-> decimals,
                        units |-> units,
                        result |-> IF units.ok
                                   THEN Returned(fromFixedPoint(units.v, decimals))
                                   ELSE Thrown]
    /\ UNCHANGED <<call, demoVars, dataVars, appVars>>

\* The caller takes the value; the functions keep no state.
MathReturn ==
    /\ math # NoMath
    /\ math' = NoMath
    /\ UNCHANGED <<call, demoVars, dataVars, appVars>>

NextMath ==
    \/ CalculateAcceptablePrice
    \/ CalculateAcceptablePriceForClose
    \/ CalculateLiquidationPrice
    \/ CalculatePnL
    \/ CalculateTradePreview
    \/ ConvertAmount
    \/ MathReturn

SpecMath == Init /\ [][NextMath]_vars

(***************************************************************************)
(* Reading the account's positions                                         *)
(***************************************************************************)
\* What a tuple's market field may hold besides a tracked market token in
\* some letter case: an address of no tracked market, or no address at all
\* (an ill-formed tuple).
Undefined == "undefined"
UnknownMarket == "0x450bb6774Dd8a756274E0ab4107953259d2ac541"

\* String.prototype.toLowerCase on the addresses the reader may report.
toLowerCase(a) ==
    CASE a = "0x70d95587d40A2caf56bd97485aB3Eec10Bee6336" ->
             "0x70d95587d40a2caf56bd97485ab3eec10bee6336"
      [] a = "0xC25CEF6061CF5DE5EB761B50E4743C1F5D7E5407" ->
             "0xc25cef6061cf5de5eb761b50e4743c1f5d7e5407"
      [] a = "0x47c031236e19d024b42f8AE6780E44A573170703" ->
             "0x47c031236e19d024b42f8ae6780e44a573170703"
      [] a = "0xC25cEf6061Cf5dE5eb761b50E4743c1F5D7E5407" ->
             "0xc25cef6061cf5de5eb761b50e4743c1f5d7e5407"
      [] a = "0x7f1fa204bb700853D36994DA19F830b6Ad18455C" ->
             "0x7f1fa204bb700853d36994da19f830b6ad18455c"
      [] a = "0x450bb6774Dd8a756274E0ab4107953259d2ac541" ->
             "0x450bb6774dd8a756274e0ab4107953259d2ac541"
      [] OTHER -> a

\* Faulty variant, for the sensitivity of the properties: the table is keyed by the addresses as configured.
MARKET_ADDRESS_TO_KEY_checksummed ==
    [a \in {GMX_MARKETS(k).marketToken : k \in MarketKey} |->
        CHOOSE k \in MarketKey : GMX_MARKETS(k).marketToken = a]

MARKET_ADDRESS_TO_KEY ==
    [a \in {toLowerCase(GMX_MARKETS(k).marketToken) : k \in MarketKey} |->
        CHOOSE k \in MarketKey : toLowerCase(GMX_MARKETS(k).marketToken) = a]

\* getChainlinkPrice: the answer of the market's feed scaled by the feed's
\* decimals; a failed read is rethrown. reply is what the chain answers to
\* reads of the feeds at that moment.
\* Faulty variant, for the sensitivity of the properties: a failed read yields the price 0.
getChainlinkPrice_zeroOnFailure(market, reply) ==
    IF reply.ok
    THEN Returned(Number(formatUnits(reply.v[market].answer, reply.v[market].decimals)))
    ELSE Returned(NumNat(0))

getChainlinkPrice(market, reply) ==
    IF reply.ok
    THEN Returned(Number(formatUnits(reply.v[market].answer, reply.v[market].decimals)))
    ELSE Thrown

\* One Position of getPositions, from a raw tuple and the market's price.
Position(marketKey, pos, currentPrice) ==
    LET sizeUsd == Number(formatUnits(pos.numbers.sizeInUsd, 30))
        collateralAmount == Number(formatUnits(pos.numbers.collateralAmount, 6))
        isLong == pos.flags.isLong
        leverage == NumDiv(sizeUsd, collateralAmount)
        entryPrice == NumDiv(sizeUsd, Number(formatUnits(pos.numbers.sizeInTokens, 18)))
        priceDiff == IF isLong THEN NumSub(currentPrice, entryPrice)
                     ELSE NumSub(entryPrice, currentPrice)
        pnl == NumMul(NumDiv(priceDiff, entryPrice), sizeUsd)
        pnlPercent == NumMul(NumDiv(pnl, collateralAmount), NumNat(100))
        liqThreshold == NumSub(NumDiv(NumNat(1), leverage), Num(1, 100))
        liquidationPrice ==
            IF isLong THEN NumMul(entryPrice, NumSub(NumNat(1), liqThreshold))
            ELSE NumMul(entryPrice, NumAdd(NumNat(1), liqThreshold))
    IN  [market |-> marketKey,
         isLong |-> isLong,
         size |-> formatNumber(sizeUsd),
         collateral |-> formatNumber(collateralAmount),
         entryPrice |-> formatNumber(entryPrice),
         markPrice |-> formatNumber(currentPrice),
         leverage |-> NumDiv(MathRound(NumMul(leverage, NumNat(10))), NumNat(10)),
         pnl |-> IF pnl.n >= 0 THEN Signed("+", formatNumber(pnl)) ELSE formatNumber(pnl),
         pnlPercent |-> pnlPercent,
         liquidationPrice |-> formatNumber(liquidationPrice)]

\* The loop of getPositions from tuple i on: marketPrices holds the prices
\* fetched so far, positions the entries pushed so far, reads the markets
\* whose feed has been read so far; oracle[i] is the chain's answer to the
\* read made for tuple i, if one is made.
Looped(ok, positions, reads) == [ok |-> ok, v |-> positions, reads |-> reads]

RECURSIVE reconstruct(_, _, _, _, _, _)
reconstruct(rawPositions, oracle, i, marketPrices, positions, reads) ==
    IF i > Len(rawPositions) THEN Looped(TRUE, positions, reads)
    ELSE
    LET pos == rawPositions[i]
    IN  IF pos.addresses.market = Undefined THEN Looped(FALSE, <<>>, reads)
        ELSE
        LET marketAddress == toLowerCase(pos.addresses.market)
        IN  IF marketAddress \notin DOMAIN MARKET_ADDRESS_TO_KEY
            THEN reconstruct(rawPositions, oracle, i + 1, marketPrices, positions, reads)
            ELSE
            LET marketKey == MARKET_ADDRESS_TO_KEY[marketAddress]
                cached == marketKey \in DOMAIN marketPrices
                fetched == getChainlinkPrice(marketKey, oracle[i])
                readsNow == IF cached THEN reads ELSE Append(reads, marketKey)
            IN  IF ~cached /\ ~fetched.ok
                THEN reconstruct(rawPositions, oracle, i + 1, marketPrices, positions,
                                 readsNow)
                ELSE
                LET prices ==
                        IF cached THEN marketPrices
                        ELSE [k \in DOMAIN marketPrices \cup {marketKey} |->
                                 IF k = marketKey THEN fetched.v ELSE marketPrices[k]]
                    currentPrice == prices[marketKey]
                    sizeUsd == Number(formatUnits(pos.numbers.sizeInUsd, 30))
                IN  IF sizeUsd = NumNat(0)
                    THEN reconstruct(rawPositions, oracle, i + 1, prices, positions,
                                     readsNow)
                    ELSE reconstruct(rawPositions, oracle, i + 1, prices,
                                     Append(positions,
                                            Position(marketKey, pos, currentPrice)),
                                     readsNow)

\* getPositions: reader is the reply of Reader.getAccountPositions.
\* Faulty variant, for the sensitivity of the properties: a failed read is passed on to the caller.
getPositions_rethrow(reader, oracle) ==
    IF ~reader.ok THEN Thrown
    ELSE IF Len(reader.v) = 0 THEN Returned(<<>>)
    ELSE LET done == reconstruct(reader.v, oracle, 1, <<>>, <<>>, <<>>)
         IN  IF done.ok THEN Returned(done.v) ELSE Thrown

getPositions(reader, oracle) ==
    IF ~reader.ok THEN Returned(<<>>)
    ELSE IF Len(reader.v) = 0 THEN Returned(<<>>)
    ELSE LET done == reconstruct(reader.v, oracle, 1, <<>>, <<>>, <<>>)
         IN  IF done.ok THEN Returned(done.v) ELSE Returned(<<>>)

\* The feed reads getPositions makes, as markets in the order of the reads.
feedReads(reader, oracle) ==
    IF ~reader.ok THEN <<>>
    ELSE IF Len(reader.v) = 0 THEN <<>>
    ELSE reconstruct(reader.v, oracle, 1, <<>>, <<>>, <<>>).reads

\* Inputs: the tuples the reader may report and the feed's answers.
MaxTuples == 3

\* k * 10^zeros as a bigint (k > 0).
Units(k, zeros) == NatDigits(k) \o Zeros(zeros)

RawPosition(market, isLong, sizeInUsd, sizeInTokens, collateralAmount) ==
    [addresses |-> [account |-> "0xAcc1", market |-> market,
                    collateralToken |-> TOKENS.USDC],
     numbers |-> [sizeInUsd |-> sizeInUsd, sizeInTokens |-> sizeInTokens,
                  collateralAmount |-> collateralAmount],
     flags |-> [isLong |-> isLong]]

RawPositionInputs ==
    {RawPosition(GMX_MARKETS("ETH-USD").marketToken, TRUE,
                 Units(3000, 30), Units(1, 18), Units(300, 6)),
     RawPosition(GMX_MARKETS("BTC-USD").marketToken, FALSE,
                 Units(1, 29), Units(1, 10), Units(1, 4)),
     RawPosition("0xC25CEF6061CF5DE5EB761B50E4743C1F5D7E5407", TRUE,
                 Units(110, 30), Units(100, 18), Units(55, 6)),
     RawPosition(toLowerCase(GMX_MARKETS("LINK-USD").marketToken), FALSE,
                 <<0>>, <<0>>, <<0>>),
     RawPosition(UnknownMarket, TRUE, Units(3000, 30), Units(1, 18), Units(300, 6)),
     RawPosition(Undefined, TRUE, Units(3000, 30), Units(1, 18), Units(300, 6))}

ReaderReplies ==
    {Thrown} \cup {Returned(raw) : raw \in UNION {[1..n -> RawPositionInputs] : n \in 0..MaxTuples}}

\* latestRoundData()[1] of each market's feed (8 decimals): 3030, 65000, 1.05, 14.5.
FeedAnswer(market) ==
    CASE market = "ETH-USD" -> Units(3030, 8)
      [] market = "BTC-USD" -> Units(65000, 8)
      [] market = "ARB-USD" -> Units(105, 6)
      [] market = "LINK-USD" -> Units(145, 7)

Feeds == [k \in MarketKey |-> [answer |-> FeedAnswer(k), decimals |-> 8]]

\* The replies to the feed read made for the tuple pos (none is made for a
\* tuple without a tracked market).
FeedReplies(pos) ==
    IF pos.addresses.market \in {UnknownMarket, Undefined}
    THEN {Thrown}
    ELSE {Thrown, Returned(Feeds)}

OracleReplies(reader) ==
    IF reader.ok
    THEN {oracle \in [1..Len(reader.v) -> {Thrown, Returned(Feeds)}] :
             \A i \in 1..Len(reader.v) : oracle[i] \in FeedReplies(reader.v[i])}
    ELSE {<<>>}

GetPositions ==
    /\ call = Idle /\ math = NoMath
    /\ \E account \in Accounts, reader \in ReaderReplies :
          \E oracle \in OracleReplies(reader) :
             call' = [op |-> "getPositions", account |-> account, reader |-> reader,
                      oracle |-> oracle, result |-> getPositions(reader, oracle),
                      reads |-> feedReads(reader, oracle)]
    /\ UNCHANGED <<demoVars, math, dataVars, appVars>>

\* The caller takes the list.
PositionsReturn ==
    /\ call # Idle /\ math = NoMath
    /\ call' = Idle
    /\ UNCHANGED <<demoVars, math, dataVars, appVars>>

\* calculatePnL on the numbers of a listed position.
CalculatePositionPnL ==
    /\ call # Idle /\ math = NoMath
    /\ \E k \in 1..Len(call.result.v) :
          LET position == call.result.v[k]
              entryPrice == parseFloat(position.entryPrice)
              currentPrice == parseFloat(position.markPrice)
              size == parseFloat(position.size)
          IN  math' = [fn |-> "calculatePnL", isLong |-> position.isLong,
                       entryPrice |-> entryPrice, currentPrice |-> currentPrice,
                       size |-> size,
                       result |-> calculatePnL(position.isLong, entryPrice,
                                               currentPrice, size)]
    /\ UNCHANGED <<call, demoVars, dataVars, appVars>>

NextPositions ==
    \/ GetPositions
    \/ PositionsReturn
    \/ CalculatePnL
    \/ CalculatePositionPnL
    \/ MathReturn

SpecPositions == Init /\ [][NextPositions]_vars

(***************************************************************************)
(* Market data: the statistics cache, getMarketData, getAllMarkets         *)
(***************************************************************************)
CACHE_DURATION == 60000

\* The /api/markets route: GET answers HTTP 200 in every case; the body's
\* data is the list of coins keyed by id, and is empty when CoinGecko
\* refuses the request or the request throws.
NoData == <<>>
RouteResponse(data) == [kind |-> "http", ok |-> TRUE, status |-> 200, data |-> data]
GET(coingecko) ==
    IF coingecko.kind = "error" THEN RouteResponse(NoData)
    ELSE IF ~coingecko.ok THEN RouteResponse(NoData)
    ELSE LET data == coingecko.body
             ids == {data[i].id : i \in 1..Len(data)}
             last(id) == CHOOSE i \in 1..Len(data) :
                            data[i].id = id /\ \A j \in (i + 1)..Len(data) : data[j].id # id
         IN  RouteResponse(
                 [id \in ids |->
                     LET coin == data[last(id)]
                     IN  [price |-> coin.current_price,
                          change24h |-> coin.price_change_percentage_24h,
                          high24h |-> coin.high_24h,
                          low24h |-> coin.low_24h,
                          volume24h |-> coin.total_volume]])

\* fetch24hData up to its first await: the cached data while the cache is
\* younger than CACHE_DURATION, a request to /api/markets otherwise.
Pending == [ok |-> FALSE, v |-> NoData]
\* Faulty variant, for the sensitivity of the properties: a cache of exactly CACHE_DURATION is still served.
fetch24hDataStart_inclusive(cache, clock) ==
    IF cache # NoCache /\ clock - cache.timestamp <= CACHE_DURATION
    THEN Returned(cache.data)
    ELSE Pending

fetch24hDataStart(cache, clock) ==
    IF cache # NoCache /\ clock - cache.timestamp < CACHE_DURATION
    THEN Returned(cache.data)
    ELSE Pending

\* fetch24hData from the response on: the new cache and the value returned.
\* Faulty variant, for the sensitivity of the properties: a failed or empty fetch drops the cache.
fetch24hDataResponse_dropsCache(cache, clock, response) ==
    IF response.kind = "http" /\ response.ok /\ Cardinality(DOMAIN response.data) > 0
    THEN [cache |-> [data |-> response.data, timestamp |-> clock],
          returned |-> Returned(response.data)]
    ELSE [cache |-> NoCache, returned |-> Returned(NoData)]

fetch24hDataResponse(cache, clock, response) ==
    LET cached == IF cache # NoCache THEN cache.data ELSE NoData
    IN  IF response.kind = "error" THEN [cache |-> cache, returned |-> Returned(cached)]
        ELSE IF ~response.ok THEN [cache |-> cache, returned |-> Returned(cached)]
        ELSE IF Cardinality(DOMAIN response.data) > 0
        THEN [cache |-> [data |-> response.data, timestamp |-> clock],
              returned |-> Returned(response.data)]
        ELSE [cache |-> cache, returned |-> Returned(cached)]

\* getMarketData after both of its calls have settled: chainlink is the
\* chain's answer to the feed reads, historicalData what fetch24hData returned.
\* Faulty variant, for the sensitivity of the properties: a failed feed read is not caught.
getMarketData_uncaught(market, chainlink, historicalData) ==
    LET marketInfo == GMX_MARKETS(market)
        chainlinkPrice == getChainlinkPrice(market, chainlink)
        hasCoin == marketInfo.coingeckoId \in DOMAIN historicalData
        coinData == historicalData[marketInfo.coingeckoId]
    IN  IF ~chainlinkPrice.ok THEN Thrown
        ELSE Returned(
            [market |-> market,
             price |-> chainlinkPrice.v,
             change24h |-> IF hasCoin THEN coinData.change24h ELSE NumNat(0),
             high24h |-> IF hasCoin THEN coinData.high24h
                         ELSE NumMul(chainlinkPrice.v, Num(102, 100)),
             low24h |-> IF hasCoin THEN coinData.low24h
                        ELSE NumMul(chainlinkPrice.v, Num(98, 100)),
             volume24h |-> IF hasCoin THEN coinData.volume24h ELSE NumNat(0),
             openInterestLong |-> NumNat(0),
             openInterestShort |-> NumNat(0),
             fundingRate |-> NumNat(0),
             maxLeverage |-> IF market = "ETH-USD" \/ market = "BTC-USD"
                             THEN NumNat(100) ELSE NumNat(50)])

getMarketData(market, chainlink, historicalData) ==
    LET marketInfo == GMX_MARKETS(market)
        chainlinkPrice == getChainlinkPrice(market, chainlink)
        hasCoin == marketInfo.coingeckoId \in DOMAIN historicalData
        coinData == historicalData[marketInfo.coingeckoId]
        price == IF chainlinkPrice.ok THEN chainlinkPrice.v
                 ELSE IF hasCoin THEN coinData.price
                 ELSE NumNat(0)
    IN  Returned(
            [market |-> market,
             price |-> price,
             change24h |-> IF hasCoin THEN coinData.change24h ELSE NumNat(0),
             high24h |-> IF hasCoin THEN coinData.high24h ELSE NumMul(price, Num(102, 100)),
             low24h |-> IF hasCoin THEN coinData.low24h ELSE NumMul(price, Num(98, 100)),
             volume24h |-> IF hasCoin THEN coinData.volume24h ELSE NumNat(0),
             openInterestLong |-> NumNat(0),
             openInterestShort |-> NumNat(0),
             fundingRate |-> NumNat(0),
             maxLeverage |-> IF market = "ETH-USD" \/ market = "BTC-USD"
                             THEN NumNat(100) ELSE NumNat(50)])

\* Object.keys(GMX_MARKETS), in the order of the configuration.
Markets == <<"ETH-USD", "BTC-USD", "ARB-USD", "LINK-USD">>

\* getAllMarkets after every getMarketData has settled: the fulfilled ones.
RECURSIVE Fulfilled(_)
Fulfilled(results) ==
    IF results = <<>> THEN <<>>
    ELSE (IF Head(results).ok THEN <<Head(results).v>> ELSE <<>>) \o Fulfilled(Tail(results))

\* Faulty variant, for the sensitivity of the properties: every market is priced by the first market's feed read.
getAllMarkets_firstFeed(chainlink, historicalData) ==
    Returned(Fulfilled([i \in 1..Len(Markets) |->
                           getMarketData(Markets[i], chainlink[1], historicalData[i])]))

getAllMarkets(chainlink, historicalData) ==
    Returned(Fulfilled([i \in 1..Len(Markets) |->
                           getMarketData(Markets[i], chainlink[i], historicalData[i])]))

\* Inputs: what CoinGecko answers to the route, and what the page's fetch of
\* the route yields (the route's reply, a network error or a non-OK status).
Coin(id, price, change, high, low, volume) ==
    [id |-> id, current_price |-> price, price_change_percentage_24h |-> change,
     high_24h |-> high, low_24h |-> low, total_volume |-> volume]

CoinGeckoReplies ==
    {[kind |-> "error"],
     [kind |-> "http", ok |-> FALSE, status |-> 429],
     [kind |-> "http", ok |-> TRUE, status |-> 200, body |-> <<>>],
     [kind |-> "http", ok |-> TRUE, status |-> 200,
      body |-> <<Coin("bitcoin", NumNat(64900), Num(-5, 10), NumNat(66000),
                      NumNat(64000), NumNat(2000000)),
                 Coin("ethereum", NumNat(3025), Num(15, 10), NumNat(3100),
                      NumNat(2950), NumNat(1000000)),
                 Coin("chainlink", Num(144, 10), NumNat(0), NumNat(15),
                      NumNat(14), NumNat(30000)),
                 Coin("arbitrum", Num(104, 100), NumNat(2), Num(11, 10),
                      NumNat(1), NumNat(50000))>>],
     [kind |-> "http", ok |-> TRUE, status |-> 200,
      body |-> <<Coin("bitcoin", NumNat(65100), Num(3, 10), NumNat(66000),
                      NumNat(64000), NumNat(2100000)),
                 Coin("ethereum", NumNat(3040), NumNat(2), NumNat(3100),
                      NumNat(2950), NumNat(1100000))>>]}

StatsResponses ==
    {[kind |-> "error"], [kind |-> "http", ok |-> FALSE, status |-> 500]}
        \cup {GET(coingecko) : coingecko \in CoinGeckoReplies}

NoResponse == [kind |-> "none"]
MaxMinutes == 1

\* A pass starts: every getMarketData of the pass runs up to its first await
\* in the same turn, so each of them consults the cache as it is now.
StartPass(op, markets) ==
    LET started == fetch24hDataStart(priceCache, now)
    IN  pass' = [op |-> op, markets |-> markets,
                 stats |-> [i \in 1..Len(markets) |-> started],
                 requests |-> IF started.ok THEN 0 ELSE Len(markets),
                 last |-> NoResponse,
                 done |-> FALSE, chainlink |-> <<>>, result |-> Thrown]

GetAllMarkets ==
    /\ pass = NoPass
    /\ StartPass("getAllMarkets", Markets)
    /\ UNCHANGED <<call, demoVars, math, priceCache, now, appVars>>

GetMarketData ==
    /\ pass = NoPass
    /\ \E market \in MarketKey : StartPass("getMarketData", <<market>>)
    /\ UNCHANGED <<call, demoVars, math, priceCache, now, appVars>>

\* The response to one pending request arrives: fetch24hData resumes.
StatsResponse ==
    /\ pass # NoPass
    /\ \E i \in 1..Len(pass.markets), response \in StatsResponses :
          /\ pass.stats[i] = Pending
          /\ LET resumed == fetch24hDataResponse(priceCache, now, response)
             IN  /\ priceCache' = resumed.cache
                 /\ pass' = [pass EXCEPT !.stats[i] = resumed.returned,
                                         !.last = response]
    /\ UNCHANGED <<call, demoVars, math, now, appVars>>

\* Every call of the pass has settled: the pass resolves. The chain's
\* answers to the feed reads touch no state of the program; they are drawn
\* here.
PassResolves ==
    /\ pass # NoPass /\ ~pass.done
    /\ \A i \in 1..Len(pass.markets) : pass.stats[i].ok
    /\ \E chainlink \in [1..Len(pass.markets) -> {Thrown, Returned(Feeds)}] :
          LET historicalData == [i \in 1..Len(pass.markets) |-> pass.stats[i].v]
          IN  pass' = [pass EXCEPT
                         !.done = TRUE, !.chainlink = chainlink,
                         !.last = NoResponse,
                         !.result =
                             IF pass.op = "getAllMarkets"
                             THEN getAllMarkets(chainlink, historicalData)
                             ELSE getMarketData(pass.markets[1], chainlink[1],
                                                historicalData[1])]
    /\ UNCHANGED <<call, demoVars, math, priceCache, now, appVars>>

\* The caller takes the result.
PassReturn ==
    /\ pass # NoPass /\ pass.done
    /\ pass' = NoPass
    /\ UNCHANGED <<call, demoVars, math, priceCache, now, appVars>>

\* Time passes, between passes or while a pass waits: one millisecond short
\* of the cache's lifetime, or all of it.
Tick ==
    /\ IF pass = NoPass THEN TRUE ELSE ~pass.done
    /\ \E dt \in {CACHE_DURATION - 1, CACHE_DURATION} :
          /\ now + dt <= MaxMinutes * CACHE_DURATION
          /\ now' = now + dt
    /\ UNCHANGED <<call, demoVars, math, priceCache, pass, appVars>>

NextData ==
    \/ GetAllMarkets
    \/ GetMarketData
    \/ StatsResponse
    \/ PassResolves
    \/ PassReturn
    \/ Tick

SpecData == Init /\ [][NextData]_vars

(***************************************************************************)
(* Position alerts (src/lib/notifications.ts)                              *)
(***************************************************************************)
ALERT_THRESHOLD == 25
Null == "null"
\* lastAlertPnlPercent: null, no alert since the position is tracked.
NeverAlerted == [null |-> TRUE]

\* Math.floor and Math.ceil.
MathFloor(x) == x.n \div x.d
MathCeil(x) == -((-x.n) \div x.d)

NoAlert == [shouldAlert |-> FALSE, type |-> Null]
Alert(type) == [shouldAlert |-> TRUE, type |-> type]
\* The map after alertedPositions.set(positionKey, entry).
MapSet(map, positionKey, entry) ==
    [k \in DOMAIN map \cup {positionKey} |-> IF k = positionKey THEN entry ELSE map[k]]
\* What a call leaves behind: the map and the returned value.
Outcome(map, result) == [alertedPositions |-> map, result |-> result]
\* The map after existing.lastAlertPnlPercent = value.
Alerted(map, positionKey, value) ==
    MapSet(map, positionKey, [map[positionKey] EXCEPT !.lastAlertPnlPercent = value])

\* Faulty variant, for the sensitivity of the properties: a tracked position alerts at every value beyond the threshold.
shouldAlertPosition_everyTime(positionKey, market, isLong, currentPnlPercent) ==
    LET tracked ==
            IF positionKey \in DOMAIN alertedPositions THEN alertedPositions
            ELSE MapSet(alertedPositions, positionKey,
                        [market |-> market, isLong |-> isLong,
                         entryPnlPercent |-> currentPnlPercent,
                         lastAlertPnlPercent |-> NeverAlerted])
    IN  IF NumLe(NumNat(ALERT_THRESHOLD), currentPnlPercent)
        THEN Outcome(Alerted(tracked, positionKey, currentPnlPercent), Alert("profit"))
        ELSE IF NumLe(currentPnlPercent, NumNat(-ALERT_THRESHOLD))
        THEN Outcome(Alerted(tracked, positionKey, currentPnlPercent), Alert("loss"))
        ELSE Outcome(tracked, NoAlert)

shouldAlertPosition(positionKey, market, isLong, currentPnlPercent) ==
    IF positionKey \notin DOMAIN alertedPositions
    THEN LET tracked ==
                 MapSet(alertedPositions, positionKey,
                        [market |-> market, isLong |-> isLong,
                         entryPnlPercent |-> currentPnlPercent,
                         lastAlertPnlPercent |-> NeverAlerted])
         IN  IF NumLe(NumNat(ALERT_THRESHOLD), currentPnlPercent)
             THEN Outcome(Alerted(tracked, positionKey, currentPnlPercent), Alert("profit"))
             ELSE IF NumLe(currentPnlPercent, NumNat(-ALERT_THRESHOLD))
             THEN Outcome(Alerted(tracked, positionKey, currentPnlPercent), Alert("loss"))
             ELSE Outcome(tracked, NoAlert)
    ELSE
    LET lastAlert == alertedPositions[positionKey].lastAlertPnlPercent
        ratio == NumDiv(currentPnlPercent, NumNat(ALERT_THRESHOLD))
        lastRatio == NumDiv(lastAlert, NumNat(ALERT_THRESHOLD))
        profit ==
            /\ NumLe(NumNat(ALERT_THRESHOLD), currentPnlPercent)
            /\ LET currentThreshold == MathFloor(ratio) * ALERT_THRESHOLD
                   lastThreshold == IF lastAlert # NeverAlerted
                                    THEN MathFloor(lastRatio) * ALERT_THRESHOLD ELSE 0
               IN  currentThreshold > lastThreshold
        loss ==
            /\ NumLe(currentPnlPercent, NumNat(-ALERT_THRESHOLD))
            /\ LET currentThreshold == MathCeil(ratio) * ALERT_THRESHOLD
                   lastThreshold == IF lastAlert # NeverAlerted
                                    THEN MathCeil(lastRatio) * ALERT_THRESHOLD ELSE 0
               IN  currentThreshold < lastThreshold
    IN  IF profit
        THEN Outcome(Alerted(alertedPositions, positionKey, currentPnlPercent),
                     Alert("profit"))
        ELSE IF loss
        THEN Outcome(Alerted(alertedPositions, positionKey, currentPnlPercent),
                     Alert("loss"))
        ELSE Outcome(alertedPositions, NoAlert)

\* alertedPositions.delete(positionKey).
clearPositionTracking(positionKey) ==
    [k \in DOMAIN alertedPositions \ {positionKey} |-> alertedPositions[k]]

MaxCalls == 3

\* The positions a caller asks about, and the PnL percentages it reports:
\* below the threshold, within the first level, just below and at the
\* second, and at, within and beyond the first level of loss.
AlertSubjects ==
    {[key |-> "ETH-USD-long", market |-> "ETH-USD", isLong |-> TRUE],
     [key |-> "BTC-USD-short", market |-> "BTC-USD", isLong |-> FALSE]}
PnlPercentInputs ==
    {NumNat(10), NumNat(30), Num(99, 2), NumNat(50), NumNat(-25), NumNat(-30),
     NumNat(-60)}

ShouldAlertPosition ==
    /\ Len(alertLog) < MaxCalls
    /\ \E subject \in AlertSubjects, currentPnlPercent \in PnlPercentInputs :
          LET done == shouldAlertPosition(subject.key, subject.market, subject.isLong,
                                          currentPnlPercent)
          IN  /\ alertedPositions' = done.alertedPositions
              /\ alertLog' = Append(alertLog,
                                    [op |-> "shouldAlertPosition",
                                     positionKey |-> subject.key,
                                     currentPnlPercent |-> currentPnlPercent,
                                     result |-> done.result])
    /\ UNCHANGED <<call, demoVars, math, dataVars, tradeVars, sdkCall>>

ClearPositionTracking ==
    /\ Len(alertLog) < MaxCalls
    /\ \E subject \in AlertSubjects :
          /\ alertedPositions' = clearPositionTracking(subject.key)
          /\ alertLog' = Append(alertLog,
                                [op |-> "clearPositionTracking",
                                 positionKey |-> subject.key])
    /\ UNCHANGED <<call, demoVars, math, dataVars, tradeVars, sdkCall>>

NextAlerts ==
    \/ ShouldAlertPosition
    \/ ClearPositionTracking

SpecAlerts == Init /\ [][NextAlerts]_vars

(***************************************************************************)
(* Demo: the trade button and the confirmation modal                       *)
(***************************************************************************)
MIN_COLLATERAL_USD == 1

\* a < b on bigints.
BigLt(a, b) ==
    IF Len(a) # Len(b) THEN Len(a) < Len(b)
    ELSE \E i \in 1..Len(a) : a[i] < b[i] /\ \A j \in 1..(i - 1) : a[j] = b[j]

\* The empty collateral field; parseFloat of it is NaN.
EmptyText == [int |-> <<>>, frac |-> <<>>, dot |-> FALSE, exp |-> FALSE]
\* parseFloat(collateral) || 0.
collateralNumOf(collateral) ==
    IF collateral = EmptyText THEN NumNat(0) ELSE parseFloat(collateral)

\* markets.find(...) finds no snapshot: undefined; the preview is then null.
NoSnapshot == [market |-> "none"]
NoPreview == [size |-> "none"]

\* The render's preview: null while the selected market has no snapshot.
previewOf(currentMarket, selectedMarket, isLong, collateral, leverage) ==
    IF currentMarket = NoSnapshot THEN NoPreview
    ELSE calculateTradePreview(
             [market |-> selectedMarket, isLong |-> isLong,
              collateral |-> collateralNumOf(collateral), leverage |-> leverage],
             currentMarket.price)

\* What handleTrade does before it reads the chain: whether it sets the
\* error banner and to what, and whether it goes on to the reads.
Returns(setsError, message) == [proceed |-> FALSE, setsError |-> setsError, error |-> message]
Proceeds == [proceed |-> TRUE, setsError |-> TRUE, error |-> NoError]

\* Faulty variant, for the sensitivity of the properties: the minimum collateral is not enforced.
handleTrade_noMinimum(click) ==
    IF ~click.isConnected \/ click.address = NoAddress THEN Returns(FALSE, NoError)
    ELSE IF click.chainId # 42161 THEN Returns(TRUE, "Please switch to Arbitrum network")
    ELSE IF click.preview = NoPreview THEN Returns(TRUE, "Unable to calculate trade preview")
    ELSE IF collateralNumOf(click.collateral).n <= 0
    THEN Returns(TRUE, "Enter collateral amount")
    ELSE Proceeds

handleTrade(click) ==
    IF ~click.isConnected \/ click.address = NoAddress THEN Returns(FALSE, NoError)
    ELSE IF click.chainId # 42161 THEN Returns(TRUE, "Please switch to Arbitrum network")
    ELSE IF click.preview = NoPreview THEN Returns(TRUE, "Unable to calculate trade preview")
    ELSE IF collateralNumOf(click.collateral).n <= 0
    THEN Returns(TRUE, "Enter collateral amount")
    ELSE IF NumLt(collateralNumOf(click.collateral), NumNat(MIN_COLLATERAL_USD))
    THEN Returns(TRUE, "Minimum $1 collateral required")
    ELSE Proceeds

\* What handleTrade does with the settled reads: the error it shows, or the
\* approval flag and the trade it puts into the modal.  The display strings
\* of the trade (size, prices, shortened address) are left out.
Refused(message) == [opens |-> FALSE, error |-> message]
checkFunds(click, reads) ==
    IF ~reads.ok THEN Refused("Failed to check wallet balance")
    ELSE
    LET collateralNum == collateralNumOf(click.collateral)
        collateralBigInt == parseUnits(NumberToString(collateralNum), 6)
    IN  IF ~collateralBigInt.ok THEN Refused("Failed to check wallet balance")
        ELSE IF BigLt(reads.balance, collateralBigInt.v)
        THEN Refused([text |-> "Insufficient USDC. Have: ",
                      have |-> ToFixed2(Num(DigitsNat(reads.balance), 1000000))])
        ELSE [opens |-> TRUE,
              needsApproval |-> BigLt(reads.allowance, collateralBigInt.v),
              tradeInfo |->
                  [marketKey |-> click.selectedMarket,
                   direction |-> IF click.isLong THEN "LONG" ELSE "SHORT",
                   sizeNum |-> click.preview.size,
                   leverageNum |-> click.leverage,
                   entryPriceNum |-> click.preview.entryPrice,
                   collateralAmount |-> collateralNum]]

\* The collateral field: empty, zero, below, at and above the minimum, and
\* with seven fraction digits.
CollateralTexts ==
    {EmptyText, DecStr(<<0>>, <<>>), DecStr(<<0>>, <<5>>), DecStr(<<1>>, <<>>),
     DecStr(<<1>>, <<0, 0, 0, 0, 0, 0, 4>>), DecStr(<<1, 0>>, <<>>)}
\* The snapshot of the selected market, when the markets have loaded.
CurrentMarkets == {NoSnapshot, [market |-> "ETH-USD", price |-> NumNat(3000)]}
\* USDC balances and allowances, in units of 10^-6.
BalanceInputs ==
    {<<9, 9, 9, 9, 9, 9>>, <<1, 0, 0, 0, 0, 0, 0>>, <<1, 0, 0, 0, 0, 0, 1>>,
     <<1, 0, 0, 0, 0, 0, 0, 0>>}
AllowanceInputs == {<<0>>, <<1, 0, 0, 0, 0, 0, 0>>, <<1, 0, 0, 0, 0, 0, 0, 0>>}
ReadReplies ==
    {[ok |-> FALSE]}
    \cup {[ok |-> TRUE, balance |-> b, allowance |-> a] :
             b \in BalanceInputs, a \in AllowanceInputs}
\* No reply yet.
NoReads == [ok |-> FALSE]

\* The user presses the trade button.
HandleTrade ==
    /\ trade = NoClick
    /\ \E isConnected \in (IF address = NoAddress THEN {FALSE} ELSE BOOLEAN),
          currentMarket \in CurrentMarkets, collateral \in CollateralTexts,
          isLong \in {TRUE} :
          LET click == [isConnected |-> isConnected, address |-> address,
                        chainId |-> chainId, selectedMarket |-> "ETH-USD",
                        isLong |-> isLong, leverage |-> NumNat(10),
                        collateral |-> collateral,
                        preview |-> previewOf(currentMarket, "ETH-USD", isLong,
                                              collateral, NumNat(10))]
              step == handleTrade(click)
          IN  /\ error' = IF step.setsError THEN step.error ELSE error
              /\ trade' = IF step.proceed
                          THEN [stage |-> "reading", click |-> click, reads |-> NoReads]
                          ELSE [stage |-> "done", click |-> click, reads |-> NoReads]
    /\ UNCHANGED <<pendingTrade, showConfirmModal, needsApproval, tradeStatus, tradeError>>
    /\ UNCHANGED <<call, address, chainId, closingPosition, closeTimers, sent, math,
                   dataVars, alertVars, sdkCall>>

\* getUsdcBalance and checkAllowance settle; handleTrade runs to its end.
TradeReadsSettle ==
    /\ trade.stage = "reading"
    /\ \E reads \in ReadReplies :
          LET done == checkFunds(trade.click, reads)
          IN  /\ trade' = [trade EXCEPT !.stage = "done", !.reads = reads]
              /\ IF done.opens
                 THEN /\ needsApproval' = done.needsApproval
                      /\ tradeStatus' = "confirm"
                      /\ tradeError' = NoTradeError
                      /\ pendingTrade' = done.tradeInfo
                      /\ showConfirmModal' = TRUE
                      /\ UNCHANGED error
                 ELSE /\ error' = done.error
                      /\ UNCHANGED <<pendingTrade, showConfirmModal, needsApproval,
                                     tradeStatus, tradeError>>
    /\ UNCHANGED <<call, address, chainId, closingPosition, closeTimers, sent, math,
                   dataVars, alertVars, sdkCall>>

\* The promise of handleTrade settles.
TradeDone ==
    /\ trade.stage = "done"
    /\ trade' = NoClick
    /\ UNCHANGED <<pendingTrade, showConfirmModal, needsApproval, tradeStatus, tradeError>>
    /\ UNCHANGED <<call, demoVars, math, dataVars, alertVars, sdkCall>>

\* The modal's confirm button: handleConfirmTrade, and submitOrder up to its
\* await of the hook.
HandleConfirmTrade ==
    /\ showConfirmModal /\ tradeStatus = "confirm"
    /\ pendingTrade # NoTrade /\ address # NoAddress
    /\ \E sdkReady \in BOOLEAN :
          IF sdkReady
          THEN tradeStatus' = "submitting" /\ UNCHANGED tradeError
          ELSE /\ tradeError' = "Wallet not connected properly. Please reconnect."
               /\ UNCHANGED tradeStatus
    /\ UNCHANGED <<pendingTrade, showConfirmModal, needsApproval, trade>>
    /\ UNCHANGED <<call, demoVars, math, dataVars, alertVars, sdkCall>>

\* The hook's openLong or openShort settles; submitOrder runs to its end.
SubmitOrderSettles ==
    /\ tradeStatus = "submitting"
    /\ \/ tradeStatus' = "success" /\ UNCHANGED tradeError
       \/ tradeStatus' = "error" /\ tradeError' = "Order submission failed"
    /\ UNCHANGED <<pendingTrade, showConfirmModal, needsApproval, trade>>
    /\ UNCHANGED <<call, demoVars, math, dataVars, alertVars, sdkCall>>

\* The modal's cancel button.
HandleCancelTrade ==
    /\ showConfirmModal
    /\ showConfirmModal' = FALSE
    /\ pendingTrade' = NoTrade
    /\ tradeStatus' = "confirm"
    /\ tradeError' = NoTradeError
    /\ UNCHANGED <<needsApproval, trade>>
    /\ UNCHANGED <<call, demoVars, math, dataVars, alertVars, sdkCall>>

NextTrade ==
    \/ WalletConnect
    \/ WalletSwitchChain
    \/ HandleTrade
    \/ TradeReadsSettle
    \/ TradeDone
    \/ HandleConfirmTrade
    \/ SubmitOrderSettles
    \/ HandleCancelTrade

SpecTrade == Init /\ [][NextTrade]_vars

(***************************************************************************)
(* The SDK hook (src/hooks/useGmxSdk.ts): openLong and openShort           *)
(***************************************************************************)
ARBITRUM_CHAIN_ID == 42161
DEFAULT_SLIPPAGE_BPS == 300

NoAmount == <<>>
NoApproval == [spender |-> "none"]

\* Faulty variant, for the sensitivity of the properties: the allowance is taken as sufficient.
ensureApproval_skips(currentAllowance, amount) == "done"

\* ensureApproval after the allowance is read: an approve is sent when the
\* allowance is below the amount.
ensureApproval(currentAllowance, amount) ==
    IF BigLt(currentAllowance, amount) THEN "approve" ELSE "done"

\* BigInt(params.leverage) throws on a number that is not an integer.
LeverageThrows(params) == params.leverage.d # 1

\* The call is rejected with an error; no further step is taken.
Rejected(c, message) == [c EXCEPT !.stage = "rejected", !.error = message]
Step(c, event) == [c EXCEPT !.steps = Append(c.steps, event)]

\* The hook enters ensureApproval: it needs the public client.
StartApproval(c) ==
    IF ~c.publicClient THEN Rejected(c, "Wallet not connected")
    ELSE [c EXCEPT !.stage = "allowance"]

\* The hook calls sdk.orders.long or sdk.orders.short.
SubmitOrder(c) ==
    IF LeverageThrows(c.params) THEN Rejected(c, "RangeError")
    ELSE [Step(c, "orderRequested") EXCEPT
             !.stage = "ordering",
             !.order = [payAmount |-> c.amount, market |-> c.params.market,
                        isLong |-> c.op = "openLong",
                        allowedSlippageBps |-> DEFAULT_SLIPPAGE_BPS,
                        leverage |-> c.params.leverage]]
NoOrder == [market |-> "none"]

\* The parameters a caller passes: a plain collateral and one that
\* Number.toString writes with an exponent; a whole and a fractional leverage.
SdkParams ==
    [market : {"ETH-USD"}, collateralUsd : {NumNat(10), Num(4, 10000000)},
     leverage : {NumNat(10), Num(5, 2)}]

\* openLong or openShort is called and runs to its first await.
OpenPosition ==
    /\ sdkCall = NoSdkCall
    /\ \E op \in {"openLong", "openShort"}, params \in SdkParams,
          sdk \in (IF address = NoAddress THEN {FALSE} ELSE BOOLEAN),
          publicClient \in BOOLEAN :
          LET collateralAmount == parseUnits(NumberToString(params.collateralUsd), 6)
              c == [op |-> op, stage |-> "called", chainId |-> chainId,
                    params |-> params, publicClient |-> publicClient,
                    amount |-> IF sdk /\ collateralAmount.ok
                               THEN collateralAmount.v ELSE NoAmount,
                    allowance |-> NoAmount, approval |-> NoApproval,
                    order |-> NoOrder, steps |-> <<>>, error |-> NoError]
          IN  sdkCall' =
                 IF ~sdk
                 THEN Rejected(c, "SDK not initialized - wallet not connected")
                 ELSE IF ~collateralAmount.ok THEN Rejected(c, "InvalidDecimalNumberError")
                 ELSE IF chainId # ARBITRUM_CHAIN_ID
                 THEN [c EXCEPT !.stage = "switching"]
                 ELSE StartApproval(c)
    /\ UNCHANGED <<call, demoVars, math, dataVars, alertVars, tradeVars>>

\* switchChainAsync settles.
SwitchChainSettles ==
    /\ sdkCall.op # "none" /\ sdkCall.stage = "switching"
    /\ \/ /\ chainId' = ARBITRUM_CHAIN_ID
          /\ sdkCall' = [Step(sdkCall, "switched") EXCEPT !.stage = "delay"]
       \/ /\ sdkCall' = Rejected(sdkCall, "switchChain failed")
          /\ UNCHANGED chainId
    /\ UNCHANGED <<call, address, error, closingPosition, closeTimers, sent, math,
                   dataVars, alertVars, tradeVars>>

\* The 500 ms after the switch have passed.
DelayElapses ==
    /\ sdkCall.op # "none" /\ sdkCall.stage = "delay"
    /\ sdkCall' = StartApproval(Step(sdkCall, "waited"))
    /\ UNCHANGED <<call, demoVars, math, dataVars, alertVars, tradeVars>>

\* The allowance read settles.
AllowanceSettles ==
    /\ sdkCall.op # "none" /\ sdkCall.stage = "allowance"
    /\ \/ sdkCall' = Rejected(sdkCall, "readContract failed")
       \/ \E currentAllowance \in AllowanceInputs :
             LET c == [Step(sdkCall, "allowanceRead") EXCEPT !.allowance = currentAllowance]
             IN  sdkCall' =
                    IF ensureApproval(currentAllowance, c.amount) = "approve"
                    THEN [c EXCEPT !.stage = "approving",
                                   !.approval = [spender |-> GMX_CONTRACTS.Router,
                                                 amount |-> c.amount]]
                    ELSE SubmitOrder(c)
    /\ UNCHANGED <<call, demoVars, math, dataVars, alertVars, tradeVars>>

\* The wallet answers the approve: a transaction hash, or a refusal.
ApproveSettles ==
    /\ sdkCall.op # "none" /\ sdkCall.stage = "approving"
    /\ \/ sdkCall' = [Step(sdkCall, "approveSent") EXCEPT !.stage = "receipt"]
       \/ sdkCall' = Rejected(sdkCall, "writeContract failed")
    /\ UNCHANGED <<call, demoVars, math, dataVars, alertVars, tradeVars>>

\* waitForTransactionReceipt settles: a receipt (of a successful or of a
\* reverted approve), or a failure.
ReceiptSettles ==
    /\ sdkCall.op # "none" /\ sdkCall.stage = "receipt"
    /\ \/ sdkCall' = SubmitOrder(Step(sdkCall, "receiptConfirmed"))
       \/ sdkCall' = Rejected(sdkCall, "waitForTransactionReceipt failed")
    /\ UNCHANGED <<call, demoVars, math, dataVars, alertVars, tradeVars>>

\* The SDK's order call settles.
OrderSettles ==
    /\ sdkCall.op # "none" /\ sdkCall.stage = "ordering"
    /\ \/ sdkCall' = [Step(sdkCall, "orderSubmitted") EXCEPT !.stage = "resolved"]
       \/ sdkCall' = Rejected(sdkCall, "order failed")
    /\ UNCHANGED <<call, demoVars, math, dataVars, alertVars, tradeVars>>

\* The caller takes the outcome.
SdkCallReturns ==
    /\ sdkCall.op # "none" /\ sdkCall.stage \in {"resolved", "rejected"}
    /\ sdkCall' = NoSdkCall
    /\ UNCHANGED <<call, demoVars, math, dataVars, alertVars, tradeVars>>

NextSdk ==
    \/ WalletConnect
    \/ WalletSwitchChain
    \/ OpenPosition
    \/ SwitchChainSettles
    \/ DelayElapses
    \/ AllowanceSettles
    \/ ApproveSettles
    \/ ReceiptSettles
    \/ OrderSettles
    \/ SdkCallReturns

SpecSdk == Init /\ [][NextSdk]_vars

(***************************************************************************)
(* Reference arithmetic for the properties: x * 10^k computed on the       *)
(* number itself, not through its decimal string                           *)
(***************************************************************************)
RECURSIVE Pow10(_)
Pow10(k) == IF k = 0 THEN 1 ELSE 10 * Pow10(k - 1)

RECURSIVE TimesPow10(_, _)
TimesPow10(x, k) == IF k = 0 THEN x ELSE TimesPow10(Num(x.n * 10, x.d), k - 1)

FracPart(x) == Num(x.n % x.d, x.d)

\* The number of fraction digits of x (at most 8 in this model).
FracLen(x) == CHOOSE j \in 0..8 :
    /\ TimesPow10(FracPart(x), j).d = 1
    /\ \A i \in 0..(j - 1) : TimesPow10(FracPart(x), i).d # 1

\* x * 10^k as a bigint, for x >= 0 with at most k fraction digits.
ScaledExact(x, k) ==
    BigInt(NatDigits(x.n \div x.d)
           \o (IF FracLen(x) = 0 THEN <<>>
               ELSE PadStart(NatDigits(TimesPow10(FracPart(x), FracLen(x)).n), FracLen(x)))
           \o Zeros(k - FracLen(x)))

\* x * 10^k to the nearest integer, a tie going up, as a bigint (k <= 8).
ScaledRound(x, k) ==
    LET y == TimesPow10(FracPart(x), k)
        fr == (2 * y.n + y.d) \div (2 * y.d)
        q == x.n \div x.d
    IN  IF fr = Pow10(k)
        THEN BigInt(NatDigits(q + 1) \o Zeros(k))
        ELSE BigInt(NatDigits(q) \o PadStart(NatDigits(fr), k))

\* A bigint that is a multiple of 10^k.
MultipleOfPow10(v, k) ==
    v = <<0>> \/ (Len(v) > k /\ \A i \in (Len(v) - k + 1)..Len(v) : v[i] = 0)

\* x is written by toString in plain decimal notation: 0, or at least 10^-6.
PlainDecimal(x) == x.n = 0 \/ x.n > (x.d - 1) \div 1000000

(***************************************************************************)
(* Properties of the order payload builder (specification Spec)            *)
(***************************************************************************)
IsCreate == call.op = "buildCreateOrderCalldata"
IsClose == call.op = "buildClosePositionCalldata"
Built == call # Idle /\ call.result.ok
SubCalls == call.result.v.calldata.args[1]
OrderOf == SubCalls[Len(SubCalls)].args[1]
ValidCreateParams(p) ==
    PlainDecimal(p.collateralAmount) /\ PlainDecimal(p.sizeDeltaUsd)
ValidCloseParams(p) ==
    PlainDecimal(p.collateralDeltaUsd) /\ PlainDecimal(p.sizeDeltaUsd)
IsSendWnt(c) ==
    c.functionName = "sendWnt" /\ c.args = <<GMX_CONTRACTS.OrderVault, EXECUTION_FEE>>

\* C1: for every valid input each builder returns one multicall payload; an
\* open payload lists exactly sendWnt(OrderVault, fee), sendTokens(USDC,
\* OrderVault, collateral), createOrder(order) in this order; a close payload
\* lists exactly sendWnt(OrderVault, fee), createOrder(order) and no sendTokens.
C1_OnePayload ==
    /\ IsCreate =>
          /\ ValidCreateParams(call.params) => call.result.ok
          /\ call.result.ok =>
                /\ call.result.v.calldata.functionName = "multicall"
                /\ Len(call.result.v.calldata.args) = 1
                /\ Len(SubCalls) = 3
                /\ IsSendWnt(SubCalls[1])
                /\ SubCalls[2].functionName = "sendTokens"
                /\ Len(SubCalls[2].args) = 3
                /\ SubCalls[2].args[1] = TOKENS.USDC
                /\ SubCalls[2].args[2] = GMX_CONTRACTS.OrderVault
                /\ SubCalls[2].args[3] = ScaledRound(call.params.collateralAmount, 6)
                /\ SubCalls[3].functionName = "createOrder"
                /\ Len(SubCalls[3].args) = 1
    /\ IsClose =>
          /\ ValidCloseParams(call.params) => call.result.ok
          /\ call.result.ok =>
                /\ call.result.v.calldata.functionName = "multicall"
                /\ Len(call.result.v.calldata.args) = 1
                /\ Len(SubCalls) = 2
                /\ IsSendWnt(SubCalls[1])
                /\ SubCalls[2].functionName = "createOrder"
                /\ Len(SubCalls[2].args) = 1
                /\ \A i \in 1..Len(SubCalls) : SubCalls[i].functionName # "sendTokens"

C1_Witness ==
    /\ IsCreate /\ call.result.ok
    /\ call.params.collateralAmount = NumNat(2)
    /\ call.params.market = "BTC-USD"

\* C2: every open payload carries initialCollateralDeltaAmount = 0 whatever
\* the collateral passed; every close payload carries the withdrawal in
\* 6-decimal units, nonzero whenever the withdrawal is nonzero.
C2_CollateralDelta ==
    /\ (IsCreate /\ call.result.ok) =>
          OrderOf.numbers.initialCollateralDeltaAmount = <<0>>
    /\ (IsClose /\ call.result.ok) =>
          /\ OrderOf.numbers.initialCollateralDeltaAmount
                = ScaledRound(call.params.collateralDeltaUsd, 6)
          /\ call.params.collateralDeltaUsd.n # 0 =>
                OrderOf.numbers.initialCollateralDeltaAmount # <<0>>

C2_Witness ==
    /\ IsCreate /\ call.result.ok
    /\ call.params.collateralAmount = Num(123456, 100)
    /\ SubCalls[2].args[3] = <<1, 2, 3, 4, 5, 6, 0, 0, 0, 0>>
    /\ OrderOf.numbers.initialCollateralDeltaAmount = <<0>>

\* The market-token addresses, as the protocol lists them.
MarketTokenOf(market) ==
    CASE market = "ETH-USD" -> "0x70d95587d40A2caf56bd97485aB3Eec10Bee6336"
      [] market = "BTC-USD" -> "0x47c031236e19d024b42f8AE6780E44A573170703"
      [] market = "ARB-USD" -> "0xC25cEf6061Cf5dE5eb761b50E4743c1F5D7E5407"
      [] market = "LINK-USD" -> "0x7f1fa204bb700853D36994DA19F830b6Ad18455C"

\* C5: in the order record of both builders receiver is the account, the
\* three optional addresses are the zero address, market is the market token
\* of params.market, the collateral token is USDC, swapPath is empty,
\* triggerPrice is 0, isLong is passed through, the referral code is zero, and
\* the order type is MarketIncrease (2) on open and MarketDecrease (4) on close.
C5_OrderRecord ==
    Built =>
        /\ OrderOf.addresses.receiver = call.params.account
        /\ OrderOf.addresses.cancellationReceiver = "0x0000000000000000000000000000000000000000"
        /\ OrderOf.addresses.callbackContract = "0x0000000000000000000000000000000000000000"
        /\ OrderOf.addresses.uiFeeReceiver = "0x0000000000000000000000000000000000000000"
        /\ OrderOf.addresses.market = MarketTokenOf(call.params.market)
        /\ OrderOf.addresses.initialCollateralToken = "0xaf88d065e77c8cC2239327C5EDb3A432268e5831"
        /\ OrderOf.addresses.swapPath = <<>>
        /\ OrderOf.numbers.triggerPrice = <<0>>
        /\ OrderOf.isLong = call.params.isLong
        /\ OrderOf.referralCode = "0x0000000000000000000000000000000000000000000000000000000000000000"
        /\ IsCreate => OrderOf.orderType = 2
        /\ IsClose => OrderOf.orderType = 4

C5_Witness ==
    /\ IsClose /\ call.result.ok
    /\ call.params.market = "LINK-USD" /\ ~call.params.isLong
    /\ call.params.account = "0xAcc2"
    /\ OrderOf.orderType = 4

\* The index-token precision of each market.
IndexDecimalsOf(market) == IF market = "BTC-USD" THEN 8 ELSE 18

\* C6: the acceptablePrice field of either builder is (p rounded to two
\* decimals) * 10^(30 - d), d = 18 for ETH-USD, ARB-USD, LINK-USD and 8 for
\* BTC-USD; so it is a multiple of 10^(28 - d).
C6_ContractPrice ==
    Built =>
        LET d == IndexDecimalsOf(call.params.market)
            cents == ScaledRound(call.params.acceptablePrice, 2)
        IN  /\ OrderOf.numbers.acceptablePrice
                  = (IF cents = <<0>> THEN <<0>> ELSE cents \o Zeros(28 - d))
            /\ MultipleOfPow10(OrderOf.numbers.acceptablePrice, 28 - d)

\* 2999.995 on BTC-USD rounds to 3000.00 first and is then written as 3000 * 10^22.
C6_Witness ==
    /\ Built
    /\ call.params.market = "BTC-USD"
    /\ call.params.acceptablePrice = Num(2999995, 1000)
    /\ OrderOf.numbers.acceptablePrice = <<3>> \o Zeros(25)

\* C7 as stated: sizeDeltaUsd = size * 10^30 in both builders, the sendTokens
\* amount = collateralAmount * 10^6, the close collateral delta =
\* collateralDeltaUsd * 10^6, exactly, for every input.
C7_Original ==
    Built =>
        /\ FracLen(call.params.sizeDeltaUsd) <= 30
        /\ OrderOf.numbers.sizeDeltaUsd = ScaledExact(call.params.sizeDeltaUsd, 30)
        /\ IsCreate =>
              /\ FracLen(call.params.collateralAmount) <= 6
              /\ SubCalls[2].args[3] = ScaledExact(call.params.collateralAmount, 6)
        /\ IsClose =>
              /\ FracLen(call.params.collateralDeltaUsd) <= 6
              /\ OrderOf.numbers.initialCollateralDeltaAmount
                    = ScaledExact(call.params.collateralDeltaUsd, 6)

\* C7 as amended: sizeDeltaUsd = size * 10^30 exactly; the two 6-decimal
\* amounts equal amount * 10^6 exactly when the amount has at most six
\* fraction digits, and otherwise amount * 10^6 rounded to the nearest
\* integer, a tie going up.
C7_Amounts ==
    Built =>
        /\ OrderOf.numbers.sizeDeltaUsd = ScaledExact(call.params.sizeDeltaUsd, 30)
        /\ IsCreate =>
              /\ SubCalls[2].args[3] = ScaledRound(call.params.collateralAmount, 6)
              /\ FracLen(call.params.collateralAmount) <= 6 =>
                    SubCalls[2].args[3] = ScaledExact(call.params.collateralAmount, 6)
        /\ IsClose =>
              /\ OrderOf.numbers.initialCollateralDeltaAmount
                    = ScaledRound(call.params.collateralDeltaUsd, 6)
              /\ FracLen(call.params.collateralDeltaUsd) <= 6 =>
                    OrderOf.numbers.initialCollateralDeltaAmount
                        = ScaledExact(call.params.collateralDeltaUsd, 6)

\* An open payload for size 1234.56 and collateral 1.0000005.
C7_Witness ==
    /\ IsCreate /\ call.result.ok
    /\ call.params.sizeDeltaUsd = Num(123456, 100)
    /\ OrderOf.numbers.sizeDeltaUsd = <<1, 2, 3, 4, 5, 6>> \o Zeros(28)
    /\ call.params.collateralAmount = Num(10000005, 10000000)
    /\ SubCalls[2].args[3] = <<1, 0, 0, 0, 0, 0, 1>>

\* C8: the builders send nothing; the returned value is always 3 * 10^14 wei
\* and equals the sendWnt amount and the order's executionFee.
C8_ExecutionFee ==
    /\ sent = NoTx
    /\ Built =>
          /\ call.result.v.value = <<3>> \o Zeros(14)
          /\ SubCalls[1].functionName = "sendWnt"
          /\ SubCalls[1].args[2] = call.result.v.value
          /\ OrderOf.numbers.executionFee = call.result.v.value

C8_Witness ==
    /\ IsClose /\ call.result.ok
    /\ call.params.acceptablePrice = NumNat(3030)
    /\ call.result.v.value = <<3, 0, 0, 0, 0, 0, 0, 0, 0, 0, 0, 0, 0, 0, 0>>

(***************************************************************************)
(* Properties of the close handler (specification SpecClose)               *)
(***************************************************************************)
SentOrder == sent.data.args[1][2].args[1]

\* C3: the write path never produces a payload from a zero price: no payload
\* with acceptablePrice = 0 is returned by a builder or handed to
\* sendTransaction.
C3_NoZeroPricePayload ==
    /\ sent # NoTx => SentOrder.numbers.acceptablePrice # <<0>>
    /\ Built => OrderOf.numbers.acceptablePrice # <<0>>

(***************************************************************************)
(* Properties of the trade math (specification SpecMath)                   *)
(***************************************************************************)
\* price * (100 + s) / 100 (up) or price * (100 - s) / 100 (down) = r, stated
\* on numerators and denominators.
BiasedBy(r, price, s, up) ==
    r.n * 100 * price.d * s.d
        = r.d * price.n * (IF up THEN 100 * s.d + s.n ELSE 100 * s.d - s.n)

\* C4: for price > 0 and slippage s >= 0, calculateAcceptablePrice gives
\* price*(1+s/100) for a long and price*(1-s/100) for a short, and
\* calculateAcceptablePriceForClose(price, isLong, s) equals
\* calculateAcceptablePrice(price, NOT isLong, s); at price 3000 and s = 1 the
\* four values are 3030 (open long, close short) and 2970 (open short, close long).
C4_AcceptablePrice ==
    /\ math.fn = "calculateAcceptablePrice" =>
          /\ BiasedBy(math.result, math.price, math.slippagePercent, math.isLong)
          /\ (math.price = NumNat(3000) /\ math.slippagePercent = NumNat(1)) =>
                math.result = (IF math.isLong THEN NumNat(3030) ELSE NumNat(2970))
    /\ math.fn = "calculateAcceptablePriceForClose" =>
          /\ BiasedBy(math.result, math.price, math.slippagePercent, ~math.isLong)
          /\ math.result
                = calculateAcceptablePrice(math.price, ~math.isLong, math.slippagePercent)
          /\ (math.price = NumNat(3000) /\ math.slippagePercent = NumNat(1)) =>
                math.result = (IF math.isLong THEN NumNat(2970) ELSE NumNat(3030))

C4_Witness ==
    /\ math.fn = "calculateAcceptablePriceForClose"
    /\ math.price = NumNat(3000) /\ math.slippagePercent = NumNat(1) /\ ~math.isLong
    /\ math.result = NumNat(3030)

IsLiq == math.fn = "calculateLiquidationPrice"
LiqThreshold == NumSub(NumDiv(NumNat(1), math.leverage), math.maintenanceMargin)

\* C9: with the default maintenance margin, entryPrice > 0, leverage L > 1 and
\* 1/L - 0.01 > 0, the liquidation price is strictly below the entry price for
\* a long and strictly above it for a short.
C9_LiquidationSide ==
    (/\ IsLiq
     /\ math.maintenanceMargin = Num(1, 100)
     /\ math.entryPrice.n > 0
     /\ NumLt(NumNat(1), math.leverage)
     /\ LiqThreshold.n > 0) =>
        IF math.isLong
        THEN NumLt(math.result, math.entryPrice)
        ELSE NumLt(math.entryPrice, math.result)

\* Leverage 10 on entry 3000, long: 3000 * (1 - (0.1 - 0.01)) = 2730.
C9_Witness ==
    /\ IsLiq /\ math.isLong
    /\ math.maintenanceMargin = Num(1, 100)
    /\ math.entryPrice = NumNat(3000) /\ math.leverage = NumNat(10)
    /\ math.result = NumNat(2730)

\* The value of the formula entry * (1 -/+ (1/L - mm)), with both sides
\* multiplied by L.
LiqUnclamped ==
    NumMul(math.result, math.leverage)
        = NumMul(math.entryPrice,
                 IF math.isLong
                 THEN NumAdd(NumSub(math.leverage, NumNat(1)),
                             NumMul(math.maintenanceMargin, math.leverage))
                 ELSE NumSub(NumAdd(math.leverage, NumNat(1)),
                             NumMul(math.maintenanceMargin, math.leverage)))

LiqCrossed ==
    /\ LiqThreshold.n <= 0
    /\ IF math.isLong
       THEN NumLe(math.entryPrice, math.result)
       ELSE NumLe(math.result, math.entryPrice)

\* C10 as stated: for every leverage L <= 1/(1 - maintenanceMargin) the term
\* (1/L - maintenanceMargin) is <= 0 and the liquidation price crosses or
\* equals the entry price; the value is returned as computed.
C10_Original ==
    IsLiq =>
        /\ LiqUnclamped
        /\ NumLe(math.leverage,
                 NumDiv(NumNat(1), NumSub(NumNat(1), math.maintenanceMargin))) => LiqCrossed

\* C10 as amended: for every leverage L >= 1/maintenanceMargin the term
\* (1/L - maintenanceMargin) is <= 0 and the liquidation price crosses or
\* equals the entry price (long >= entry, short <= entry); the value is
\* returned as computed, for every leverage, without clamping.
C10_Degenerate ==
    IsLiq =>
        /\ LiqUnclamped
        /\ NumLe(NumDiv(NumNat(1), math.maintenanceMargin), math.leverage) => LiqCrossed

\* Leverage 150 on entry 3000, long: 3000 * (1 - (1/150 - 0.01)) = 3010, above the entry.
C10_Witness ==
    /\ IsLiq /\ math.isLong
    /\ math.maintenanceMargin = Num(1, 100)
    /\ math.entryPrice = NumNat(3000) /\ math.leverage = NumNat(150)
    /\ math.result = NumNat(3010)

(***************************************************************************)
(* Properties of the trade preview (specification SpecMath)                *)
(***************************************************************************)
IsPreview == math # NoMath /\ math.fn = "calculateTradePreview"
PreviewPositionFee == NumSub(math.result.fees, NumMul(Num(1, 10000), math.currentPrice))
PreviewFormulas ==
    LET c == math.params.collateral
        L == math.params.leverage
        p == math.currentPrice
        r == math.result
        term == NumSub(NumDiv(NumNat(1), L), Num(1, 100))
    IN  /\ r.size = NumMul(c, L)
        /\ r.entryPrice = p
        /\ r.margin = c
        /\ r.leverage = L
        /\ r.fees = NumAdd(NumMul(r.size, Num(5, 10000)), NumMul(Num(1, 10000), p))
        /\ r.liquidationPrice =
               IF math.params.isLong THEN NumMul(p, NumSub(NumNat(1), term))
               ELSE NumMul(p, NumAdd(NumNat(1), term))
PreviewExample ==
    /\ IsPreview /\ math.params.isLong
    /\ math.params.collateral = NumNat(100) /\ math.params.leverage = NumNat(10)
    /\ math.currentPrice = NumNat(3000)

\* C13 as stated: for collateral >= 0, leverage >= 1 and currentPrice >= 0 the
\* preview has size = collateral * leverage, entryPrice = currentPrice,
\* margin = collateral, the leverage unchanged, fees = size * 0.0005 +
\* 0.0001 * currentPrice and the liquidation price of calculateLiquidationPrice
\* at the default margin; collateral 100, leverage 10, price 3000, long gives
\* size 3000, position fee 1.5 and liquidation price 2730.
C13_Original ==
    /\ IsPreview => PreviewFormulas
    /\ PreviewExample =>
           /\ math.result.size = NumNat(3000)
           /\ PreviewPositionFee = Num(15, 10)
           /\ math.result.liquidationPrice = NumNat(2730)

\* C13 as amended: the same formulas; collateral 100, leverage 10, price 3000,
\* long gives size 1000, position fee 0.5 (fees 0.8) and liquidation price 2730.
C13_TradePreview ==
    /\ IsPreview => PreviewFormulas
    /\ PreviewExample =>
           /\ math.result.size = NumNat(1000)
           /\ PreviewPositionFee = Num(5, 10)
           /\ math.result.fees = Num(8, 10)
           /\ math.result.liquidationPrice = NumNat(2730)

\* The example of C13 has been evaluated.
C13_Witness == PreviewExample /\ math.result.size = NumNat(1000)

(***************************************************************************)
(* Properties of PnL and of the position list (specification SpecPositions)*)
(***************************************************************************)
IsPnL == math # NoMath /\ math.fn = "calculatePnL"
IsGetPositions == call # Idle /\ call.op = "getPositions"
Listed == call.result.v
RawTuples == call.reader.v

\* The tracked market an address denotes, letter case ignored, or "none".
KeyOf(a) ==
    CASE a \in {"0x70d95587d40A2caf56bd97485aB3Eec10Bee6336",
                "0x70d95587d40a2caf56bd97485ab3eec10bee6336"} -> "ETH-USD"
      [] a \in {"0x47c031236e19d024b42f8AE6780E44A573170703",
                "0x47c031236e19d024b42f8ae6780e44a573170703"} -> "BTC-USD"
      [] a \in {"0xC25cEf6061Cf5dE5eb761b50E4743c1F5D7E5407",
                "0xc25cef6061cf5de5eb761b50e4743c1f5d7e5407",
                "0xC25CEF6061CF5DE5EB761B50E4743C1F5D7E5407"} -> "ARB-USD"
      [] a \in {"0x7f1fa204bb700853D36994DA19F830b6Ad18455C",
                "0x7f1fa204bb700853d36994da19f830b6ad18455c"} -> "LINK-USD"
      [] OTHER -> "none"

\* The number a bigint v denotes at the given number of decimals.
RECURSIVE RawValue(_, _)
RawValue(v, decimals) ==
    IF decimals = 0 \/ v = <<0>> THEN NumNat(DigitsNat(v))
    ELSE IF v[Len(v)] = 0 THEN RawValue(SubSeq(v, 1, Len(v) - 1), decimals - 1)
    ELSE Num(DigitsNat(v), Pow10(decimals))

\* The price the feed of a market reports.
FeedPrice(market) ==
    CASE market = "ETH-USD" -> NumNat(3030)
      [] market = "BTC-USD" -> NumNat(65000)
      [] market = "ARB-USD" -> Num(105, 100)
      [] market = "LINK-USD" -> Num(145, 10)

WellFormed ==
    call.reader.ok /\ \A i \in 1..Len(RawTuples) : RawTuples[i].addresses.market # Undefined

\* Tuple i is reconstructed: tracked market, nonzero size, price fetched by
\* the read made for it or for an earlier tuple of its market.
Kept(i) ==
    /\ KeyOf(RawTuples[i].addresses.market) # "none"
    /\ RawTuples[i].numbers.sizeInUsd # <<0>>
    /\ \E j \in 1..i :
          /\ KeyOf(RawTuples[j].addresses.market) = KeyOf(RawTuples[i].addresses.market)
          /\ call.oracle[j].ok
KeptIndices == SelectSeq([i \in 1..Len(RawTuples) |-> i], LAMBDA i : Kept(i))

\* The numbers of the tuple behind the k-th listed position.
TupleOf(k) == RawTuples[KeptIndices[k]]
SizeOf(k) == RawValue(TupleOf(k).numbers.sizeInUsd, 30)
CollateralOf(k) == RawValue(TupleOf(k).numbers.collateralAmount, 6)
EntryOf(k) == NumDiv(SizeOf(k), RawValue(TupleOf(k).numbers.sizeInTokens, 18))
MarkOf(k) == FeedPrice(KeyOf(TupleOf(k).addresses.market))
PnlOf(k) ==
    LET move == NumMul(NumDiv(NumSub(MarkOf(k), EntryOf(k)), EntryOf(k)), SizeOf(k))
    IN  IF TupleOf(k).flags.isLong THEN move ELSE NumNeg(move)

Sign(x) == IF x.n > 0 THEN 1 ELSE IF x.n < 0 THEN -1 ELSE 0

\* A display string shows the number x: its sign mark, and |x| to the nearest
\* hundredth (a tie away from zero) in its digits.
Shows(str, plus, x) ==
    LET mag == IF x.n < 0 THEN NumNeg(x) ELSE x
        digits == IF "sign" \in DOMAIN str THEN str.str ELSE str
    IN  /\ BigInt(digits.int \o digits.frac) = ScaledRound(mag, 2)
        /\ Len(digits.frac) = 2
        /\ IF x.n < 0 THEN "sign" \in DOMAIN str /\ str.sign = "-"
           ELSE IF plus THEN "sign" \in DOMAIN str /\ str.sign = "+"
           ELSE "sign" \notin DOMAIN str

\* C11: for entry > 0 and size > 0, calculatePnL and the PnL that getPositions
\* computes are (mark - entry)/entry * size for a long and the negated value
\* for a short, so a move in the position's favour gives pnl > 0, the opposite
\* move pnl < 0, mark = entry pnl = 0; pnlPercent has the sign of pnl.
C11_PnL ==
    /\ IsPnL /\ math.entryPrice.n > 0 /\ math.size.n > 0 =>
          LET move == NumMul(NumDiv(NumSub(math.currentPrice, math.entryPrice),
                                    math.entryPrice), math.size)
              pnl == math.result.pnl
          IN  /\ pnl = IF math.isLong THEN move ELSE NumNeg(move)
              /\ math.isLong /\ NumLt(math.entryPrice, math.currentPrice) => pnl.n > 0
              /\ ~math.isLong /\ NumLt(math.currentPrice, math.entryPrice) => pnl.n > 0
              /\ math.isLong /\ NumLt(math.currentPrice, math.entryPrice) => pnl.n < 0
              /\ ~math.isLong /\ NumLt(math.entryPrice, math.currentPrice) => pnl.n < 0
              /\ math.currentPrice = math.entryPrice => pnl.n = 0
              /\ Sign(math.result.pnlPercent) = Sign(pnl)
    /\ IsGetPositions /\ WellFormed =>
          \A k \in 1..Len(Listed) :
             /\ Shows(Listed[k].pnl, TRUE, PnlOf(k))
             /\ Sign(Listed[k].pnlPercent) = Sign(PnlOf(k))
             /\ Listed[k].isLong /\ NumLt(EntryOf(k), MarkOf(k)) =>
                   Listed[k].pnl.sign = "+" /\ Listed[k].pnlPercent.n > 0
             /\ ~Listed[k].isLong /\ NumLt(MarkOf(k), EntryOf(k)) =>
                   Listed[k].pnl.sign = "+" /\ Listed[k].pnlPercent.n > 0
             /\ Listed[k].isLong /\ NumLt(MarkOf(k), EntryOf(k)) =>
                   Listed[k].pnl.sign = "-" /\ Listed[k].pnlPercent.n < 0

\* A long in loss has been listed by getPositions and valued by calculatePnL.
C11_Witness ==
    /\ IsGetPositions /\ WellFormed /\ Len(Listed) = 1
    /\ Listed[1].market = "ARB-USD" /\ Listed[1].pnl.sign = "-"
    /\ IsPnL /\ math.isLong /\ math.result.pnl.n < 0

\* C12: pnlPercent is pnl / collateral * 100 wherever it is computed: in every
\* Position of getPositions, and in the value calculatePnL returns for the
\* same position (same direction, entry, mark and size), so the two agree.
C12_PnlPercent ==
    IsGetPositions /\ WellFormed =>
       \A k \in 1..Len(Listed) :
          /\ Listed[k].pnlPercent =
                NumMul(NumDiv(PnlOf(k), CollateralOf(k)), NumNat(100))
          /\ ( /\ IsPnL
               /\ math.isLong = Listed[k].isLong
               /\ math.entryPrice = EntryOf(k)
               /\ math.currentPrice = MarkOf(k)
               /\ math.size = SizeOf(k) )
             => math.result.pnlPercent = Listed[k].pnlPercent

\* C19: getPositions lists exactly one Position, in the reader's order, for
\* each tuple whose market address is, letter case ignored, a tracked market
\* token, whose sizeInUsd is nonzero and whose market price could be fetched;
\* tuples of other markets and tuples of size 0 are left out without an
\* error (three tracked tuples with prices, one of size 0: 2 entries).
C19_ListedPositions ==
    IsGetPositions /\ WellFormed =>
       /\ call.result.ok
       /\ Len(Listed) = Len(KeptIndices)
       /\ \A k \in 1..Len(Listed) :
             /\ Listed[k].market = KeyOf(TupleOf(k).addresses.market)
             /\ Listed[k].isLong = TupleOf(k).flags.isLong
             /\ Shows(Listed[k].size, FALSE, SizeOf(k))
             /\ Shows(Listed[k].collateral, FALSE, CollateralOf(k))
             /\ Shows(Listed[k].markPrice, FALSE, MarkOf(k))

\* Three tuples of tracked markets, every price fetched, the second of size 0:
\* the first and the third are listed.
C19_Witness ==
    /\ IsGetPositions /\ WellFormed /\ Len(RawTuples) = 3
    /\ \A i \in 1..3 : KeyOf(RawTuples[i].addresses.market) # "none" /\ call.oracle[i].ok
    /\ RawTuples[2].numbers.sizeInUsd = <<0>>
    /\ Len(Listed) = 2
    /\ Listed[1].market = "ETH-USD" /\ Listed[2].market = "ARB-USD"

\* C20: getPositions never rejects; it resolves with the empty list when the
\* reader call fails, when the reader reports no tuple and when a step of the
\* reconstruction throws, so a failed read looks like an account without
\* positions.
C20_NeverRejects ==
    IsGetPositions =>
       /\ call.result.ok
       /\ ~call.reader.ok => Listed = <<>>
       /\ call.reader.ok /\ RawTuples = <<>> => Listed = <<>>
       /\ call.reader.ok /\ ~WellFormed => Listed = <<>>

\* The reader call has failed and getPositions has resolved.
C20_Witness == IsGetPositions /\ ~call.reader.ok /\ call.result = Returned(<<>>)

(***************************************************************************)
(* Properties of the market data (specification SpecData)                  *)
(***************************************************************************)
PassStarts == pass = NoPass /\ pass' # NoPass
\* A response has been delivered to one fetch24hData call of the pass.
ReplyStep == pass # NoPass /\ pass' # NoPass /\ pass'.stats # pass.stats
Replied == CHOOSE i \in 1..Len(pass.markets) : pass'.stats[i] # pass.stats[i]
FailedOrEmpty(response) ==
    \/ response.kind = "error"
    \/ ~response.ok
    \/ response.data = <<>>
CacheFresh == priceCache # NoCache /\ now - priceCache.timestamp < 60000

\* C14: a fetch24hData call made less than 60 000 ms after the cache's
\* timestamp returns the cached data and issues no request; a call made
\* 60 000 ms or more after it, or without a cache, issues a request; when
\* that request fails (network error, non-OK status) or yields empty data
\* the call returns the cached data if there is a cache, else an empty map;
\* the call never throws.
C14_CacheLifetime ==
    [][ /\ PassStarts =>
             \A i \in 1..Len(pass'.markets) :
                IF CacheFresh
                THEN pass'.stats[i] = Returned(priceCache.data) /\ pass'.requests = 0
                ELSE pass'.stats[i] = Pending /\ pass'.requests >= 1
        /\ ReplyStep =>
             /\ pass'.stats[Replied].ok
             /\ FailedOrEmpty(pass'.last) =>
                   pass'.stats[Replied].v =
                      IF priceCache = NoCache THEN <<>> ELSE priceCache.data
             /\ ~FailedOrEmpty(pass'.last) =>
                   pass'.stats[Replied].v = pass'.last.data
      ]_vars

\* A request made with a cache of exactly 60 000 ms has failed and the call
\* has returned the stale data.
C14_Witness ==
    /\ pass # NoPass /\ pass.requests > 0 /\ pass.last = [kind |-> "error"]
    /\ priceCache # NoCache /\ now - priceCache.timestamp = 60000
    /\ \E i \in 1..Len(pass.markets) : pass.stats[i] = Returned(priceCache.data)

\* C15: the cache changes only when a fetch yields non-empty data; a fetch
\* that throws, has a non-OK status or yields empty data (the route's
\* rate-limited reply is HTTP 200 with empty data) leaves the cached data and
\* timestamp as they are; a cache never becomes null again and its timestamp
\* never decreases.
C15_CacheFrame ==
    [][ /\ priceCache' # priceCache =>
             /\ ReplyStep /\ ~FailedOrEmpty(pass'.last)
             /\ priceCache' = [data |-> pass'.last.data, timestamp |-> now]
        /\ ReplyStep /\ FailedOrEmpty(pass'.last) => priceCache' = priceCache
        /\ priceCache # NoCache =>
             priceCache' # NoCache /\ priceCache'.timestamp >= priceCache.timestamp
        /\ LET limited == GET([kind |-> "http", ok |-> FALSE, status |-> 429])
           IN  limited.ok /\ limited.status = 200 /\ limited.data = <<>>
      ]_vars

\* The route's rate-limited reply has been delivered while a cache exists.
C15_Witness ==
    /\ pass # NoPass /\ priceCache # NoCache
    /\ pass.last = GET([kind |-> "http", ok |-> FALSE, status |-> 429])
    /\ \E i \in 1..Len(pass.markets) : pass.stats[i] = Returned(priceCache.data)

\* What a snapshot must hold for a market, given the chain's answer to the
\* feed read and the statistics the call obtained.
CoinId(market) ==
    CASE market = "ETH-USD" -> "ethereum"
      [] market = "BTC-USD" -> "bitcoin"
      [] market = "ARB-USD" -> "arbitrum"
      [] market = "LINK-USD" -> "chainlink"
ExpectedPrice(market, feedOk, statistics) ==
    IF feedOk THEN FeedPrice(market)
    ELSE IF CoinId(market) \in DOMAIN statistics THEN statistics[CoinId(market)].price
    ELSE NumNat(0)
SnapshotOk(snapshot, market, feedOk, statistics) ==
    /\ snapshot.market = market
    /\ snapshot.price = ExpectedPrice(market, feedOk, statistics)
    /\ CoinId(market) \notin DOMAIN statistics =>
          /\ snapshot.high24h = NumMul(snapshot.price, Num(102, 100))
          /\ snapshot.low24h = NumMul(snapshot.price, Num(98, 100))
          /\ snapshot.change24h = NumNat(0)
          /\ snapshot.volume24h = NumNat(0)
          /\ ~feedOk => /\ snapshot.price = NumNat(0)
                        /\ snapshot.high24h = NumNat(0)
                        /\ snapshot.low24h = NumNat(0)
PassDone(op) == pass # NoPass /\ pass.op = op /\ pass.done

\* C16: getMarketData returns the oracle price when the oracle call succeeds,
\* else the secondary source's price for the market when it has one (fresh
\* or stale), else 0; without a secondary entry high24h = price * 1.02,
\* low24h = price * 0.98, change24h = 0, volume24h = 0 (both sources down:
\* price, high and low 0); it never rejects.
C16_MarketData ==
    PassDone("getMarketData") =>
       /\ pass.result.ok
       /\ SnapshotOk(pass.result.v, pass.markets[1], pass.chainlink[1].ok, pass.stats[1].v)

\* The oracle call has failed and the stale cache has priced the market.
C16_Witness ==
    /\ PassDone("getMarketData") /\ pass.markets[1] = "ETH-USD"
    /\ ~pass.chainlink[1].ok /\ pass.requests = 1 /\ priceCache # NoCache
    /\ pass.stats[1].v = priceCache.data /\ now - priceCache.timestamp >= 60000
    /\ pass.result.v.price = NumNat(3025)

\* C17: for every combination of oracle and statistics failures
\* getAllMarkets resolves with exactly one snapshot per market, in the
\* markets' order; a market whose oracle call failed has the secondary price
\* or 0, every other market its own oracle price.
C17_AllMarkets ==
    PassDone("getAllMarkets") =>
       /\ pass.result.ok
       /\ Len(pass.result.v) = 4
       /\ \A i \in 1..4 :
             SnapshotOk(pass.result.v[i], Markets[i], pass.chainlink[i].ok, pass.stats[i].v)

\* One oracle call has failed with the statistics source down and no cache:
\* that market is priced 0, the other three by their oracles.
C17_Witness ==
    /\ PassDone("getAllMarkets") /\ priceCache = NoCache
    /\ ~pass.chainlink[2].ok
    /\ \A i \in {1, 3, 4} : pass.chainlink[i].ok
    /\ Len(pass.result.v) = 4
    /\ pass.result.v[2].price = NumNat(0)
    /\ pass.result.v[1].price = NumNat(3030)

\* C18: one pass of getAllMarkets over the four markets issues at most one
\* request to the statistics endpoint, whether the cache is empty, stale or
\* fresh when the pass starts.
C18_OneRequest ==
    pass # NoPass /\ pass.op = "getAllMarkets" => pass.requests <= 1

(***************************************************************************)
(* Further properties of the position list (specification SpecPositions)   *)
(***************************************************************************)
TupleKey(i) == KeyOf(RawTuples[i].addresses.market)
\* The feed reads fail for market M and succeed for every other market.
OnlyFails(M) ==
    /\ \E i \in 1..Len(RawTuples) : TupleKey(i) = M
    /\ \A i \in 1..Len(RawTuples) :
          /\ TupleKey(i) = M => ~call.oracle[i].ok
          /\ TupleKey(i) \notin {M, "none"} => call.oracle[i].ok
\* The tuples of nonzero size in tracked markets other than M, in order.
OthersOf(M) ==
    SelectSeq([i \in 1..Len(RawTuples) |-> i],
              LAMBDA i : /\ TupleKey(i) \notin {M, "none"}
                         /\ RawTuples[i].numbers.sizeInUsd # <<0>>)

\* C21: in one getPositions pass, when the price fetch fails for market M and
\* succeeds for the other markets, the list has no position of M and has
\* every nonzero position of every other tracked market, wherever the tuples
\* of M stand among the others.
C21_FailedMarketSkipped ==
    IsGetPositions /\ WellFormed =>
       \A M \in MarketKey :
          OnlyFails(M) =>
             /\ \A k \in 1..Len(Listed) : Listed[k].market # M
             /\ Len(Listed) = Len(OthersOf(M))
             /\ \A k \in 1..Len(Listed) :
                   /\ Listed[k].market = TupleKey(OthersOf(M)[k])
                   /\ Listed[k].isLong = RawTuples[OthersOf(M)[k]].flags.isLong

\* The fetch has failed for the market of the middle tuple of three: the
\* first and the third tuple are listed.
C21_Witness ==
    /\ IsGetPositions /\ WellFormed /\ Len(RawTuples) = 3
    /\ TupleKey(1) = "ETH-USD" /\ TupleKey(2) = "ARB-USD" /\ TupleKey(3) = "BTC-USD"
    /\ OnlyFails("ARB-USD")
    /\ Len(Listed) = 2 /\ Listed[1].market = "ETH-USD" /\ Listed[2].market = "BTC-USD"

\* The number of feed reads made for a market in the pass.
ReadsOf(M) == Cardinality({j \in 1..Len(call.reads) : call.reads[j] = M})

\* C22: within one getPositions pass the price oracle is called at most once
\* per market, however many tuples the market has and whether the first call
\* succeeded or failed; all positions of a market carry the same mark price.
C22_OneReadPerMarket ==
    IsGetPositions =>
       /\ \A M \in MarketKey : ReadsOf(M) <= 1
       /\ \A k, l \in 1..Len(Listed) :
             Listed[k].market = Listed[l].market =>
                Listed[k].markPrice = Listed[l].markPrice

\* The entry price of the k-th listed position with the token size read at
\* the precision of the market's index token.
EntryNativeOf(k) ==
    NumDiv(SizeOf(k),
           RawValue(TupleOf(k).numbers.sizeInTokens,
                    IndexDecimalsOf(KeyOf(TupleOf(k).addresses.market))))

\* C23: every listed position has entryPrice = sizeUsd / sizeInTokens, with
\* sizeInUsd read at 30 decimals and sizeInTokens at the precision of the
\* market's index token (18 for ETH, ARB, LINK, 8 for BTC), and leverage =
\* sizeUsd / collateral.
C23_EntryPrice ==
    IsGetPositions /\ WellFormed =>
       \A k \in 1..Len(Listed) :
          /\ Listed[k].leverage = NumDiv(SizeOf(k), CollateralOf(k))
          /\ Shows(Listed[k].entryPrice, FALSE, EntryNativeOf(k))

(***************************************************************************)
(* The leverage limits of the snapshots (specification SpecData)           *)
(***************************************************************************)
\* The documented limit of a market (README.md, Supported Markets).
DocumentedMaxLeverage(market) ==
    IF market \in {"ETH-USD", "BTC-USD"} THEN NumNat(50) ELSE NumNat(30)
\* The snapshots of a finished pass.
Snapshots ==
    IF PassDone("getMarketData") THEN <<pass.result.v>>
    ELSE IF PassDone("getAllMarkets") THEN pass.result.v
    ELSE <<>>

\* C24: the maxLeverage of a market snapshot is 50 for ETH-USD and BTC-USD
\* and 30 for ARB-USD and LINK-USD; no snapshot has a maxLeverage above 50.
C24_MaxLeverage ==
    \A i \in 1..Len(Snapshots) :
       /\ Snapshots[i].maxLeverage = DocumentedMaxLeverage(Snapshots[i].market)
       /\ NumLe(Snapshots[i].maxLeverage, NumNat(50))

(***************************************************************************)
(* The fixed-point round trip (specification SpecMath)                     *)
(***************************************************************************)
IsConvert == math # NoMath /\ math.fn = "convert"
\* The amount is returned exactly when it has at most `decimals` fraction
\* digits, and within less than 10^-decimals otherwise.
Reproduced ==
    /\ math.result.ok
    /\ FracLen(math.amount) <= math.decimals => math.result.v = math.amount
    /\ FracLen(math.amount) > math.decimals =>
          LET diff == NumSub(math.result.v, math.amount)
              unit == Num(1, Pow10(math.decimals))
          IN  NumLt(diff, unit) /\ NumLt(NumNeg(diff), unit)
\* Number.toString writes the amount without an exponent.
PlainAmount == math.amount.n = 0 \/ math.amount.n > (math.amount.d - 1) \div 1000000

OfferedMax(market) == getMarketData(market, Thrown, NoData).v.maxLeverage
\* A preview at a positive price and a whole leverage the market offers.
OfferedPreview ==
    /\ IsPreview
    /\ math.currentPrice.n > 0
    /\ math.params.leverage.d = 1
    /\ NumLe(NumNat(1), math.params.leverage)
    /\ NumLe(math.params.leverage, OfferedMax(math.params.market))

IsAlertCall(j) == alertLog[j].op = "shouldAlertPosition"
Alerts(j) == IsAlertCall(j) /\ alertLog[j].result.shouldAlert
\* Call j follows call i for the same key, the key not cleared in between.
SameTracking(i, j) ==
    /\ i < j
    /\ alertLog[i].positionKey = alertLog[j].positionKey
    /\ \A c \in (i + 1)..(j - 1) :
          ~(alertLog[c].op = "clearPositionTracking"
            /\ alertLog[c].positionKey = alertLog[j].positionKey)
\* The most recent alert for the key of call j before call j, or 0.
AlertBefore(j) ==
    LET earlier == {i \in 1..(j - 1) : Alerts(i) /\ SameTracking(i, j)}
    IN  IF earlier = {} THEN 0 ELSE CHOOSE i \in earlier : \A h \in earlier : h <= i
\* The level of a value: the multiple of 25 it has reached, with its sign.
LevelOf(p) ==
    IF p.n >= 0 THEN (p.n \div (p.d * 25)) * 25
    ELSE -(((-p.n) \div (p.d * 25)) * 25)

C29_OncePerLevel ==
    /\ \A i, j \in 1..Len(alertLog) :
          Alerts(i) /\ Alerts(j) /\ SameTracking(i, j) =>
             LevelOf(alertLog[i].currentPnlPercent) # LevelOf(alertLog[j].currentPnlPercent)
    /\ \A j \in 1..Len(alertLog) :
          alertLog[j].op = "clearPositionTracking" =>
             (j = Len(alertLog) => alertLog[j].positionKey \notin DOMAIN alertedPositions)

(***************************************************************************)
(* Properties of the trade button (specification SpecTrade)                *)
(***************************************************************************)
\* A step in which a handleTrade call runs to its end.
TradeFinishes == trade.stage # "done" /\ trade'.stage = "done"
BigNum(b) == NumNat(DigitsNat(b))
\* What the click saw: a connected wallet with an address on chain 42161, a
\* preview, a collateral of at least 1 USD, and reads that succeeded.
ClickAdmits(t) ==
    /\ t.click.isConnected /\ t.click.address # NoAddress
    /\ t.click.chainId = 42161
    /\ t.click.preview # NoPreview
    /\ NumLe(NumNat(1), parseFloat(t.click.collateral))
    /\ t.stage = "done" /\ t.reads.ok
\* The modal is open on the trade of the click, with the given approval flag.
ModalOpened(t, approval) ==
    /\ showConfirmModal' /\ pendingTrade' # NoTrade
    /\ pendingTrade'.collateralAmount = parseFloat(t.click.collateral)
    /\ pendingTrade'.marketKey = t.click.selectedMarket
    /\ needsApproval' = approval
ModalUntouched == UNCHANGED <<pendingTrade, showConfirmModal, needsApproval>>

\* C27 as stated: handleTrade opens the modal only when the wallet is
\* connected with an address, the chain is 42161, a preview exists, the
\* collateral is at least 1 USD, the reads succeeded and the USDC balance is
\* at least collateral * 10^6; in every other case pendingTrade and the modal
\* are unchanged; needsApproval is set to allowance < collateral * 10^6
\* exactly when the modal is opened.
C27_Original ==
    [][TradeFinishes =>
          LET t == trade'
              units == NumMul(parseFloat(t.click.collateral), NumNat(1000000))
          IN  IF ClickAdmits(t) /\ NumLe(units, BigNum(t.reads.balance))
              THEN ModalOpened(t, NumLt(BigNum(t.reads.allowance), units))
              ELSE ModalUntouched]_vars

\* C27: the same with the collateral in USDC units as handleTrade computes
\* it, collateral * 10^6 rounded to the nearest integer (a tie going up).
C27_ConfirmModal ==
    [][TradeFinishes =>
          LET t == trade'
              units == BigNum(ScaledRound(parseFloat(t.click.collateral), 6))
          IN  IF ClickAdmits(t) /\ NumLe(units, BigNum(t.reads.balance))
              THEN ModalOpened(t, NumLt(BigNum(t.reads.allowance), units))
              ELSE ModalUntouched]_vars

\* A click with collateral 10, balance 10 USDC and allowance 1 USDC has
\* opened the modal, which announces an approval.
C27_Witness ==
    /\ trade.stage = "done" /\ ClickAdmits(trade)
    /\ parseFloat(trade.click.collateral) = NumNat(10)
    /\ trade.reads.balance = <<1, 0, 0, 0, 0, 0, 0, 0>>
    /\ trade.reads.allowance = <<1, 0, 0, 0, 0, 0, 0>>
    /\ showConfirmModal /\ pendingTrade # NoTrade
    /\ pendingTrade.collateralAmount = NumNat(10) /\ needsApproval

(***************************************************************************)
(* Properties of the SDK hook (specification SpecSdk)                      *)
(***************************************************************************)
IsSdkCall == sdkCall.op # "none"
Happened(event) == \E i \in 1..Len(sdkCall.steps) : sdkCall.steps[i] = event
IsPrefix(a, b) == Len(a) <= Len(b) /\ \A i \in 1..Len(a) : a[i] = b[i]
\* The allowance read is below the collateral amount.
ApprovalDue == DigitsNat(sdkCall.allowance) < DigitsNat(sdkCall.amount)
\* The steps of a call that runs to its end, in their order.
FullCourse ==
    (IF sdkCall.chainId # 42161 THEN <<"switched", "waited">> ELSE <<>>)
    \o <<"allowanceRead">>
    \o (IF Happened("allowanceRead") /\ ApprovalDue
        THEN <<"approveSent", "receiptConfirmed">> ELSE <<>>)
    \o <<"orderRequested", "orderSubmitted">>

\* C26: openLong and openShort take their steps in a fixed order: switch to
\* chain 42161 and wait when the wallet is on another chain; read the USDC
\* allowance of the Router; approve exactly the collateral amount and wait
\* for the receipt, only when the allowance is below the amount; submit the
\* order.  The order is never requested before the switch resolved and the
\* receipt of a needed approval arrived; when a step before it fails no order
\* is requested and the call rejects; without an SDK instance the call
\* rejects before any step.
C26_StepOrder ==
    IsSdkCall =>
       /\ IsPrefix(sdkCall.steps, FullCourse)
       /\ sdkCall.approval # NoApproval =>
             /\ Happened("allowanceRead") /\ ApprovalDue
             /\ sdkCall.approval.spender = GMX_CONTRACTS.Router
             /\ sdkCall.approval.amount = sdkCall.amount
             /\ sdkCall.amount = ScaledRound(sdkCall.params.collateralUsd, 6)
       /\ (sdkCall.order # NoOrder) = Happened("orderRequested")
       /\ sdkCall.order # NoOrder =>
             /\ sdkCall.order.payAmount = ScaledRound(sdkCall.params.collateralUsd, 6)
             /\ sdkCall.order.isLong = (sdkCall.op = "openLong")
       /\ sdkCall.stage = "rejected" =>
             /\ sdkCall.error # NoError
             /\ ~Happened("orderSubmitted")
       /\ sdkCall.stage = "resolved" => sdkCall.steps = FullCourse
       /\ sdkCall.error = "SDK not initialized - wallet not connected" =>
             /\ sdkCall.stage = "rejected" /\ sdkCall.steps = <<>>
             /\ sdkCall.approval = NoApproval /\ sdkCall.order = NoOrder

\* An openShort called on another chain with an allowance of 1 USDC for a
\* collateral of 10 has taken all six steps.
C26_Witness ==
    /\ IsSdkCall /\ sdkCall.op = "openShort" /\ sdkCall.stage = "resolved"
    /\ sdkCall.chainId = 1
    /\ sdkCall.allowance = <<1, 0, 0, 0, 0, 0, 0>>
    /\ sdkCall.approval.amount = <<1, 0, 0, 0, 0, 0, 0, 0>>
    /\ sdkCall.steps = <<"switched", "waited", "allowanceRead", "approveSent",
                         "receiptConfirmed", "orderRequested", "orderSubmitted">>

====
